---------------------------- MODULE Spec2Model ----------------------------
(***************************************************************************)
(* A model of antsibull_fileutils.copier: the containment check            *)
(* _is_internal, the tree copier _TreeCopier and the two copy strategies   *)
(* Copier.copy (full walk) and GitCopier.copy (selective copy of a listed  *)
(* set of paths).                                                          *)
(*                                                                         *)
(* Path texts are sequences of one-character strings, so that os.path's    *)
(* text operations (join, split, normpath, relpath, startswith) are        *)
(* modelled by what they do to the text.                                   *)
(***************************************************************************)
EXTENDS Integers, Sequences, FiniteSets, TLC

-----------------------------------------------------------------------------
(* Bounds of the model.                                                    *)

\* longest link text drawn for the containment check
MaxLinkLen == 6
\* longest base directory text drawn for the containment check
MaxDirLen == 2

-----------------------------------------------------------------------------
(* posixpath: text operations.                                             *)

Alphabet == {"a", ".", "/"}

Strings(n) == UNION {[1..k -> Alphabet] : k \in 0..n}

sep == <<"/">>

curdir == <<".">>

pardir == <<".", ".">>

StartsWith(s, prefix) ==
    /\ Len(s) >= Len(prefix)
    /\ SubSeq(s, 1, Len(prefix)) = prefix

Drop(s, n) == SubSeq(s, n + 1, Len(s))

\* str.find(sep), 1-based; 0 when there is none
FindSep(s) ==
    IF \E i \in 1..Len(s) : s[i] = "/"
    THEN CHOOSE i \in 1..Len(s) : s[i] = "/" /\ \A j \in 1..(i - 1) : s[j] # "/"
    ELSE 0

\* str.rfind(sep), 1-based; 0 when there is none
RFindSep(s) ==
    IF \E i \in 1..Len(s) : s[i] = "/"
    THEN CHOOSE i \in 1..Len(s) : s[i] = "/" /\ \A j \in (i + 1)..Len(s) : s[j] # "/"
    ELSE 0

\* str.split(sep): the pieces between separators, empty pieces included
RECURSIVE StrSplit(_)
StrSplit(s) ==
    LET i == FindSep(s)
    IN  IF i = 0 THEN <<s>>
        ELSE <<SubSeq(s, 1, i - 1)>> \o StrSplit(Drop(s, i))

\* sep.join(comps)
RECURSIVE StrJoin(_)
StrJoin(comps) ==
    IF comps = <<>> THEN <<>>
    ELSE IF Len(comps) = 1 THEN comps[1]
    ELSE comps[1] \o sep \o StrJoin(Tail(comps))

\* str.rstrip(sep)
RECURSIVE RStripSep(_)
RStripSep(s) ==
    IF s # <<>> /\ s[Len(s)] = "/" THEN RStripSep(SubSeq(s, 1, Len(s) - 1)) ELSE s

isabs(s) == StartsWith(s, sep)

\* posixpath.splitdrive(p)[0]: POSIX paths carry no drive
splitdrive0(s) == <<>>

\* posixpath.join(a, b)
join(a, b) ==
    IF StartsWith(b, sep) THEN b
    ELSE IF a = <<>> \/ a[Len(a)] = "/" THEN a \o b
    ELSE a \o sep \o b

\* posixpath.split(p): <<head, tail>>
split(p) ==
    LET i    == RFindSep(p)
        head == SubSeq(p, 1, i)
        tail == Drop(p, i)
    IN  IF head # <<>> /\ \E k \in 1..Len(head) : head[k] # "/"
        THEN <<RStripSep(head), tail>>
        ELSE <<head, tail>>

\* the loop of posixpath.normpath over the components
RECURSIVE NormComps(_, _, _)
NormComps(comps, new_comps, initial_slashes) ==
    IF comps = <<>> THEN new_comps
    ELSE LET comp == Head(comps)
             rest == Tail(comps)
         IN  IF comp = <<>> \/ comp = curdir
             THEN NormComps(rest, new_comps, initial_slashes)
             ELSE IF \/ comp # pardir
                     \/ (initial_slashes = 0 /\ new_comps = <<>>)
                     \/ (new_comps # <<>> /\ new_comps[Len(new_comps)] = pardir)
             THEN NormComps(rest, Append(new_comps, comp), initial_slashes)
             ELSE IF new_comps # <<>>
             THEN NormComps(rest, SubSeq(new_comps, 1, Len(new_comps) - 1), initial_slashes)
             ELSE NormComps(rest, new_comps, initial_slashes)

\* posixpath.normpath(path)
normpath(path) ==
    IF path = <<>> THEN curdir
    ELSE LET initial_slashes ==
                 IF ~StartsWith(path, sep) THEN 0
                 ELSE IF StartsWith(path, <<"/", "/">>) /\ ~StartsWith(path, <<"/", "/", "/">>)
                      THEN 2 ELSE 1
             comps == NormComps(StrSplit(path), <<>>, initial_slashes)
             body  == StrJoin(comps)
             res   == [i \in 1..initial_slashes |-> "/"] \o body
         IN  IF res = <<>> THEN curdir ELSE res

-----------------------------------------------------------------------------
(* copier._is_internal                                                     *)

\* _is_internal with line 37 testing for any text that starts with '..'
IsInternalLooseDotDot(directory, link) ==
    LET dest == join(directory, link)
    IN  IF isabs(dest) THEN FALSE
        ELSE IF splitdrive0(dest) # <<>> THEN FALSE
        ELSE LET np == normpath(dest)
             IN  ~(np = pardir \/ StartsWith(np, pardir))

\* _is_internal without the tests of lines 30-34
IsInternalNoAbsCheck(directory, link) ==
    LET np == normpath(join(directory, link))
    IN  ~(np = pardir \/ StartsWith(np, pardir \o sep))

_is_internal(directory, link) ==
    LET dest == join(directory, link)
    IN  IF isabs(dest) THEN FALSE
        ELSE IF splitdrive0(dest) # <<>> THEN FALSE
        ELSE LET np == normpath(dest)
             IN  ~(np = pardir \/ StartsWith(np, pardir \o sep))

-----------------------------------------------------------------------------
(* posixpath.relpath                                                       *)

\* os.getcwd(): the paths of the model are absolute, the value is not read
getcwd == sep

abspath(p) == IF isabs(p) THEN normpath(p) ELSE normpath(join(getcwd, p))

NonEmpty(comps) == SelectSeq(comps, LAMBDA x : x # <<>>)

\* len(commonprefix([a, b])) of two component lists
CommonPrefixLen(a, b) ==
    LET m == IF Len(a) < Len(b) THEN Len(a) ELSE Len(b)
        S == {i \in 0..m : \A j \in 1..i : a[j] = b[j]}
    IN  CHOOSE i \in S : \A k \in S : k <= i

relpath(path, start) ==
    LET start_list == NonEmpty(StrSplit(abspath(start)))
        path_list  == NonEmpty(StrSplit(abspath(path)))
        i          == CommonPrefixLen(start_list, path_list)
        rel_list   == [k \in 1..(Len(start_list) - i) |-> pardir]
                          \o SubSeq(path_list, i + 1, Len(path_list))
    IN  IF rel_list = <<>> THEN curdir ELSE StrJoin(rel_list)

-----------------------------------------------------------------------------
(* The filesystem: a function from the absolute path of an entry to the    *)
(* entry.  kind is "file", "dir" or "link"; data is a file's content or a  *)
(* link's target text; meta stands for the entry's stat data (mode and     *)
(* timestamps): every source entry carries its own, a freshly created      *)
(* entry carries FreshMeta.                                                *)

\* symlinks followed while resolving one path
MaxLinkHops == 4
\* directory levels a recursive copy descends
MaxTreeDepth == 3

Entry(kind, data, meta) == [kind |-> kind, data |-> data, meta |-> meta]

FreshMeta == <<>>

Result(f, e) == [fs |-> f, err |-> e]

Put(f, p, e) == [q \in (DOMAIN f) \cup {p} |-> IF q = p THEN e ELSE f[q]]

lexists(f, p) == normpath(p) \in DOMAIN f

islink(f, p) == lexists(f, p) /\ f[normpath(p)].kind = "link"

\* posixpath._joinrealpath (not strict): <<path, ok>>
RECURSIVE RealpathLoop(_, _, _, _)
RealpathLoop(f, path, rest, fuel) ==
    IF rest = <<>> THEN <<path, TRUE>>
    ELSE LET i     == FindSep(rest)
             name  == IF i = 0 THEN rest ELSE SubSeq(rest, 1, i - 1)
             rest2 == IF i = 0 THEN <<>> ELSE Drop(rest, i)
         IN  IF name = <<>> \/ name = curdir
             THEN RealpathLoop(f, path, rest2, fuel)
             ELSE IF name = pardir
             THEN IF path # <<>>
                  THEN LET hs == split(path)
                       IN  RealpathLoop(f,
                               IF hs[2] = pardir
                               THEN join(join(hs[1], pardir), pardir)
                               ELSE hs[1],
                               rest2, fuel)
                  ELSE RealpathLoop(f, pardir, rest2, fuel)
             ELSE LET newpath == join(path, name)
                  IN  IF ~(newpath \in DOMAIN f /\ f[newpath].kind = "link")
                      THEN RealpathLoop(f, newpath, rest2, fuel)
                      ELSE IF fuel = 0
                      THEN <<join(newpath, rest2), FALSE>>
                      ELSE LET text == f[newpath].data
                               r == RealpathLoop(f,
                                        IF isabs(text) THEN sep ELSE path,
                                        IF isabs(text) THEN Tail(text) ELSE text,
                                        fuel - 1)
                           IN  IF ~r[2] THEN <<join(r[1], rest2), FALSE>>
                               ELSE RealpathLoop(f, r[1], rest2, fuel)

\* os.path.realpath(p) of an absolute path
realpath(f, p) ==
    abspath(RealpathLoop(f, IF isabs(p) THEN sep ELSE <<>>,
                         IF isabs(p) THEN Tail(p) ELSE p, MaxLinkHops)[1])

\* os.path.isdir(p): follows symlinks
isdir(f, p) ==
    LET r == realpath(f, p) IN r \in DOMAIN f /\ f[r].kind = "dir"

\* os.mkdir that accepts an existing directory
MkdirExistOk(f, p) ==
    IF isdir(f, p) THEN Result(f, "none")
    ELSE IF ~isdir(f, split(normpath(p))[1]) THEN Result(f, "FileNotFoundError")
    ELSE Result(Put(f, normpath(p), Entry("dir", <<>>, FreshMeta)), "none")

\* os.mkdir(p)
mkdir(f, p) ==
    IF lexists(f, p) THEN Result(f, "FileExistsError")
    ELSE IF ~isdir(f, split(normpath(p))[1]) THEN Result(f, "FileNotFoundError")
    ELSE Result(Put(f, normpath(p), Entry("dir", <<>>, FreshMeta)), "none")

\* os.makedirs(name, exist_ok=True), after the missing ancestors are there
MakedirsLeaf(r1, name) ==
    IF r1.err # "none" THEN r1
    ELSE IF isdir(r1.fs, name) THEN r1
    ELSE mkdir(r1.fs, name)

\* os.makedirs of a normalized path: missing ancestors are created first
RECURSIVE MakedirsNorm(_, _, _)
MakedirsNorm(f, name, head) ==
    MakedirsLeaf(IF head # <<>> /\ head # name /\ ~lexists(f, head)
                 THEN MakedirsNorm(f, head, split(head)[1])
                 ELSE Result(f, "none"),
                 name)

\* os.makedirs(p, exist_ok=True)
makedirs(f, p) == MakedirsNorm(f, normpath(p), split(normpath(p))[1])

\* copystat: the stat data of the entry rs are put on the entry rd
CopystatTo(f, rs, rd) ==
    IF rs \notin DOMAIN f \/ rd \notin DOMAIN f
    THEN Result(f, "FileNotFoundError")
    ELSE Result([f EXCEPT ![rd].meta = f[rs].meta], "none")

\* shutil.copystat(src, dst, follow_symlinks=False): src and dst are followed
\* unless both are symlinks
copystat(f, src, dst) ==
    IF islink(f, src) /\ islink(f, dst)
    THEN CopystatTo(f, normpath(src), normpath(dst))
    ELSE CopystatTo(f, realpath(f, src), realpath(f, dst))

\* shutil.copy2 leaving an empty file
Copy2Truncating(f, rs, rd) ==
    IF rs \notin DOMAIN f THEN Result(f, "FileNotFoundError")
    ELSE IF f[rs].kind = "dir" THEN Result(f, "IsADirectoryError")
    ELSE Result(Put(f, rd, Entry("file", <<>>, f[rs].meta)), "none")

\* copy2: the file rs is written to the resolved destination rd
Copy2To(f, rs, rd) ==
    IF rs \notin DOMAIN f THEN Result(f, "FileNotFoundError")
    ELSE IF f[rs].kind = "dir" THEN Result(f, "IsADirectoryError")
    ELSE IF rd = rs THEN Result(f, "SameFileError")
    ELSE IF rd \in DOMAIN f /\ f[rd].kind = "dir" THEN Result(f, "IsADirectoryError")
    ELSE IF ~(split(rd)[1] \in DOMAIN f /\ f[split(rd)[1]].kind = "dir")
    THEN Result(f, "FileNotFoundError")
    ELSE Result(Put(f, rd, Entry("file", f[rs].data, f[rs].meta)), "none")

\* shutil.copy2(src, dst): content and stat data, src followed; a dst that is
\* a directory receives the file under the name it has in src
copy2(f, src, dst) ==
    Copy2To(f, realpath(f, src),
            realpath(f, IF isdir(f, dst)
                        THEN join(normpath(dst), split(normpath(src))[2])
                        ELSE dst))

\* os.symlink(text, d) for a normalized d
SymlinkAt(f, text, d) ==
    IF d \in DOMAIN f THEN Result(f, "FileExistsError")
    ELSE IF ~isdir(f, split(d)[1]) THEN Result(f, "FileNotFoundError")
    ELSE Result(Put(f, d, Entry("link", text, FreshMeta)), "none")

\* os.symlink(text, dst)
symlink(f, text, dst) == SymlinkAt(f, text, normpath(dst))

Children(f, dir) == {p \in DOMAIN f : p # dir /\ split(p)[1] = dir}

\* what a symlink inside a copied tree is replaced by: the path it resolves to
Followed(f, c) == IF f[c].kind = "link" THEN realpath(f, c) ELSE c

\* what shutil.copytree(src, ..., symlinks=False) writes below its
\* destination: pairs <<path below the destination, entry>>; name is the
\* entry's name in src and r the path it resolves to
RECURSIVE TreeImage(_, _, _)
TreeImageOf(f, name, r, depth) ==
    IF r \notin DOMAIN f THEN {}
    ELSE IF f[r].kind = "dir"
    THEN {<<sep \o name, Entry("dir", <<>>, f[r].meta)>>}
         \cup (IF depth = 0 THEN {}
               ELSE {<<sep \o name \o x[1], x[2]>> : x \in TreeImage(f, r, depth - 1)})
    ELSE {<<sep \o name, Entry("file", f[r].data, f[r].meta)>>}

TreeImage(f, src, depth) ==
    UNION {TreeImageOf(f, split(c)[2], Followed(f, c), depth) : c \in Children(f, src)}

\* copytree collects the entries it cannot copy (a dangling symlink) and
\* raises shutil.Error after the rest has been copied
RECURSIVE TreeErrors(_, _, _)
TreeErrorAt(f, r, depth) ==
    \/ r \notin DOMAIN f
    \/ f[r].kind = "dir" /\ depth > 0 /\ TreeErrors(f, r, depth - 1)

TreeErrors(f, src, depth) ==
    \E c \in Children(f, src) : TreeErrorAt(f, Followed(f, c), depth)

\* copytree: the image img of src is written at the normalized path d
CopytreeTo(f, src, d, img, errors) ==
    IF d \in DOMAIN f THEN Result(f, "FileExistsError")
    ELSE IF ~isdir(f, split(d)[1]) THEN Result(f, "FileNotFoundError")
    ELSE Result(
             [q \in (DOMAIN f) \cup {d} \cup {d \o x[1] : x \in img} |->
                 IF q = d THEN Entry("dir", <<>>, f[src].meta)
                 ELSE IF q \in DOMAIN f THEN f[q]
                 ELSE (CHOOSE x \in img : d \o x[1] = q)[2]],
             IF errors THEN "Error" ELSE "none")

\* shutil.copytree(src, dst, symlinks=False)
copytree(f, src, dst) ==
    CopytreeTo(f, src, normpath(dst), TreeImage(f, src, MaxTreeDepth),
               TreeErrors(f, src, MaxTreeDepth))

-----------------------------------------------------------------------------
(* copier._TreeCopier.  An instance is a record tc of the fields __init__  *)
(* sets; an operation takes the filesystem and the instance and returns    *)
(* the new filesystem, the new instance and the error raised ("none" when  *)
(* it returns normally).                                                   *)

Outcome(f, tc, e) == [fs |-> f, tc |-> tc, err |-> e]

\* _TreeCopier.__init__, r being what os.mkdir(self.dest) did
Constructed(r, source, dest, keep_inside, keep_outside, normalize) ==
    Outcome(r.fs,
            [source |-> source,
             dest |-> dest,
             keep_inside_symlinks |-> keep_inside,
             keep_outside_symlinks |-> keep_outside,
             never_keep |-> ~(keep_inside \/ keep_outside),
             normalize_links |-> normalize,
             created_directories |-> {curdir, <<>>}],
            r.err)

\* _TreeCopier.__init__
TreeCopierInit(f, source, dest, keep_inside, keep_outside, normalize) ==
    Constructed(mkdir(f, dest), source, dest, keep_inside, keep_outside, normalize)

\* lines 69-72 with the test of normalize_links left out
LinkTextAlwaysNormalized(tc, directory, literal) ==
    relpath(join(join(tc.source, directory), literal), join(tc.source, directory))

\* _copy_link, lines 69-72: the target text the copy works with
LinkText(tc, directory, literal) ==
    IF tc.normalize_links
    THEN LET full_directory == join(tc.source, directory)
         IN  relpath(join(full_directory, literal), full_directory)
    ELSE literal

\* _copy_link, line 74
LinkInternal(tc, directory, link) ==
    IF tc.never_keep THEN FALSE ELSE _is_internal(directory, link)

\* line 75 deciding to keep every link
LinkKeepAlways(tc, directory, link) == TRUE

\* _copy_link, line 75
LinkKeep(tc, directory, link) ==
    IF LinkInternal(tc, directory, link)
    THEN tc.keep_inside_symlinks
    ELSE tc.keep_outside_symlinks

\* _copy_link, lines 78-79
KeepLink(r, full_source, full_dest) ==
    IF r.err # "none" THEN r ELSE copystat(r.fs, full_source, full_dest)

\* lines 82-93 passing over a target that does not exist
MaterializeSkipMissing(f, real_source, full_dest) ==
    IF real_source \notin DOMAIN f THEN Result(f, "none")
    ELSE IF f[real_source].kind = "dir" THEN copytree(f, real_source, full_dest)
    ELSE copy2(f, real_source, full_dest)

\* _copy_link, lines 82-93
Materialize(f, real_source, full_dest) ==
    IF real_source \in DOMAIN f /\ f[real_source].kind = "dir"
    THEN copytree(f, real_source, full_dest)
    ELSE copy2(f, real_source, full_dest)

\* _copy_link, lines 74-93, link being the text of lines 69-72
CopyLinkAs(f, tc, directory, link, full_source, full_dest) ==
    IF LinkKeep(tc, directory, link)
    THEN KeepLink(symlink(f, link, full_dest), full_source, full_dest)
    ELSE Materialize(f, realpath(f, full_source), full_dest)

_copy_link(f, tc, directory, full_source, full_dest) ==
    CopyLinkAs(f, tc, directory,
               LinkText(tc, directory, f[normpath(full_source)].data),
               full_source, full_dest)

\* _create_dir, lines 101-102
CreateDirStat(r, tc, directory) ==
    IF r.err # "none" THEN Outcome(r.fs, tc, r.err)
    ELSE Outcome(r.fs, [tc EXCEPT !.created_directories = @ \cup {directory}], "none")

\* _create_dir, lines 100-101
CreateDirMake(r, src_dir, dest_dir) ==
    IF r.err # "none" THEN r ELSE copystat(r.fs, src_dir, dest_dir)

\* _create_dir with the test of line 96 left out
CreateDirAgain(f, tc, directory) ==
    CreateDirStat(
        CreateDirMake(makedirs(f, join(tc.dest, directory)),
                      join(tc.source, directory),
                      join(tc.dest, directory)),
        tc, directory)

_create_dir(f, tc, directory) ==
    IF directory \in tc.created_directories THEN Outcome(f, tc, "none")
    ELSE CreateDirStat(
             CreateDirMake(makedirs(f, join(tc.dest, directory)),
                           join(tc.source, directory),
                           join(tc.dest, directory)),
             tc, directory)

\* _copy_file, lines 107-113
CopyFileInDir(r1, directory, relative_path, full_source, full_dest) ==
    IF r1.err # "none" THEN r1
    ELSE IF islink(r1.fs, full_source)
    THEN _copy_link(r1.fs, r1.tc, directory, full_source, full_dest) @@ r1
    ELSE copy2(r1.fs, full_source, full_dest) @@ r1

\* _copy_file without the _create_dir of line 105
CopyFileWithoutCreateDir(f, tc, directory, relative_path) ==
    CopyFileInDir(Outcome(f, tc, "none"), directory, relative_path,
                  join(tc.source, relative_path), join(tc.dest, relative_path))

_copy_file(f, tc, directory, relative_path) ==
    CopyFileInDir(_create_dir(f, tc, directory), directory, relative_path,
                  join(tc.source, relative_path), join(tc.dest, relative_path))

\* copy_file with an existence test that follows the link
CopyFileIfTargetExists(f, tc, relative_path, ignore_non_existing) ==
    IF ignore_non_existing /\ realpath(f, join(tc.source, relative_path)) \notin DOMAIN f
    THEN Outcome(f, tc, "none")
    ELSE _copy_file(f, tc, split(relative_path)[1], relative_path)

\* copy_file without the test of lines 118-121
CopyFileAlways(f, tc, relative_path, ignore_non_existing) ==
    _copy_file(f, tc, split(relative_path)[1], relative_path)

copy_file(f, tc, relative_path, ignore_non_existing) ==
    IF ignore_non_existing /\ ~lexists(f, join(tc.source, relative_path))
    THEN Outcome(f, tc, "none")
    ELSE _copy_file(f, tc, split(relative_path)[1], relative_path)

\* walk, lines 141-142: _create_dir for every directory name left in dirs
RECURSIVE CreateDirs(_, _, _)
CreateDirsNext(r, directory, dirs) ==
    IF r.err # "none" THEN r ELSE CreateDirs(r, directory, dirs)

CreateDirs(r, directory, dirs) ==
    IF dirs = {} THEN r
    ELSE CreateDirsNext(
             _create_dir(r.fs, r.tc, join(directory, CHOOSE d \in dirs : TRUE)),
             directory, dirs \ {CHOOSE d \in dirs : TRUE})

\* GitCopier.copy, lines 236-239: the listed path is filtered out
GitExcluded(exclude_root, file_decoded) ==
    \/ \E k \in 1..Len(exclude_root) : file_decoded = exclude_root[k]
    \/ \E k \in 1..Len(exclude_root) :
           StartsWith(file_decoded, exclude_root[k] \o sep)

-----------------------------------------------------------------------------
(* The source tree, the entries outside it and the inputs of the calls.    *)

\* longest list of paths the file listing returns
MaxFiles == 2

\* the absolute path with the one-character names cs: Abs(<<"s","d">>) is /s/d
Abs(cs) == [i \in 1..(2 * Len(cs)) |-> IF i % 2 = 1 THEN "/" ELSE cs[i \div 2]]

\* the relative path with the one-character names cs
Rel(cs) == Tail(Abs(cs))

FsOf(S) == [p \in {x[1] : x \in S} |-> (CHOOSE x \in S : x[1] = p)[2]]

SrcFile(p) == <<p, Entry("file", <<"c">> \o p, p)>>

SrcDir(p) == <<p, Entry("dir", <<>>, p)>>

SrcLink(p, text) == <<p, Entry("link", text, p)>>

\* from_path, and to_path of the two calls
Source == Abs(<<"s">>)

DestWalk == Abs(<<"t">>)

DestGit == Abs(<<"u">>)

\* Outside the source root: a file o; a directory p holding a file, a
\* directory with a file and a symlink to a file.  Inside: a file e, a
\* directory d with a file e, a directory m with an empty directory d.
BaseEntries ==
    { SrcDir(sep),
      SrcFile(Abs(<<"o">>)),
      SrcDir(Abs(<<"p">>)),
      SrcFile(Abs(<<"p", "f">>)),
      SrcDir(Abs(<<"p", "q">>)),
      SrcFile(Abs(<<"p", "q", "g">>)),
      SrcLink(Abs(<<"p", "k">>), <<".", ".", "/", "o">>),
      SrcDir(Source),
      SrcFile(Abs(<<"s", "e">>)),
      SrcDir(Abs(<<"s", "d">>)),
      SrcFile(Abs(<<"s", "d", "e">>)),
      SrcDir(Abs(<<"s", "m">>)),
      SrcDir(Abs(<<"s", "m", "d">>)) }

Up == <<".", ".", "/">>

\* the symlink of the source tree: at l or at d/l, with one of these texts
RootLinkTexts ==
    { Rel(<<"e">>),                  \* a file of the tree
      Rel(<<"d">>),                  \* a directory of the tree
      Rel(<<"x">>),                  \* nothing, inside
      Up \o Rel(<<"o">>),            \* a file outside
      Up \o Rel(<<"p">>),            \* a directory outside
      Up \o Rel(<<"x">>),            \* nothing, outside
      Up \o Rel(<<"s", "e">>),       \* a file of the tree, through the root's name
      Abs(<<"s", "e">>),             \* a file of the tree, absolute
      Abs(<<"o">>),                  \* a file outside, absolute
      Abs(<<"p">>) }                 \* a directory outside, absolute

NestedLinkTexts ==
    { Up \o Rel(<<"e">>),            \* the root-level file
      Up \o Up \o Rel(<<"s", "e">>), \* the same, through the root's name
      Rel(<<"e">>),                  \* the file beside the link
      pardir,                        \* the root
      Up \o Rel(<<"m">>),            \* a root-level directory
      Up \o Up \o Rel(<<"p">>),      \* a directory outside
      Up \o Up \o Rel(<<"x">>) }     \* nothing, outside

LinkChoices ==
    {{}} \cup {{SrcLink(Abs(<<"s", "l">>), t)} : t \in RootLinkTexts}
         \cup {{SrcLink(Abs(<<"s", "d", "l">>), t)} : t \in NestedLinkTexts}

\* the exclude_root arguments
ExcludeChoices ==
    { <<>>,
      <<Rel(<<"e">>)>>,
      <<Rel(<<"d">>)>>,
      <<Rel(<<"z">>), Rel(<<"l">>)>>,
      <<Rel(<<"d", "e">>)>> }

\* the paths the file listing may name; x is a path that no longer exists
ListedPaths ==
    { Rel(<<"e">>), Rel(<<"d", "e">>), Rel(<<"l">>), Rel(<<"d", "l">>), Rel(<<"x">>) }

\* the lists without repetition (git ls-files --deduplicate) of at most
\* MaxFiles paths
FileLists ==
    {l \in UNION {[1..k -> ListedPaths] : k \in 0..MaxFiles} :
        \A i, j \in 1..Len(l) : i # j => l[i] # l[j]}

\* bytes.decode("utf-8"): the listed names are ASCII, which decodes to the
\* same characters
decode(file) == file

NoCopier ==
    [source |-> <<>>, dest |-> <<>>, keep_inside_symlinks |-> TRUE,
     keep_outside_symlinks |-> FALSE, never_keep |-> FALSE,
     normalize_links |-> TRUE, created_directories |-> {}]

-----------------------------------------------------------------------------
VARIABLES
    ii_directory,   \* _is_internal: argument directory
    ii_link,        \* _is_internal: argument link
    ii_result,      \* _is_internal: the value returned ("none" before the call)
    ii_pc,          \* "call" before the call, "done" after it
    fs,             \* the filesystem
    normalize_links,        \* Copier.normalize_links
    keep_inside_symlinks,   \* the flags the _TreeCopier is constructed with
    keep_outside_symlinks,
    exclude_root,   \* the exclude_root argument of the calls
    to_path,        \* per call: its to_path argument
    pc,             \* "idle", or where the running copy stands
    op,             \* the call that runs or ran last: "Copier", "GitCopier"
    outcome,        \* per call: "none", "ok" or the error raised
    tc,             \* the _TreeCopier of the call
    exclude_root_set,   \* walk: exclude_root_set
    frames,         \* walk: the generator os.walk, a stack of the directories
                    \* still to visit, one set per level
    root,           \* walk: root
    directory,      \* walk: directory
    w_files,        \* walk: the names of files not yet iterated
    w_dirs,         \* walk: dirs
    files,          \* GitCopier.copy: files
    g_i,            \* GitCopier.copy: position of the loop in files
    error_message,  \* GitCopier.copy: the message of the CopierError raised
    relative_path,  \* the entry handed to _copy_file / copy_file last
    ld_tc,          \* _copy_link: two _TreeCopier instances that differ in
    ld_tc2,         \* self.source only
    ld_directory,   \* _copy_link: argument directory
    ld_literal,     \* _copy_link: what os.readlink(full_source) returned
    ld_dec,         \* _copy_link of ld_tc: link, internal and keep
    ld_dec2,        \* _copy_link of ld_tc2: link, internal and keep
    ld_pc,          \* "call" before lines 69-75 ran, "done" after
    cc_pc,          \* CollectionCopier: "none" before construction, then
                    \* "constructed", "copying" (in __enter__, in copier.copy),
                    \* "entered" (in the with-block), "exited", "raised"
    cc_dir,         \* CollectionCopier.dir
    cc_calls,       \* the calls of copier.copy made, as their arguments
    cc_yield,       \* what __enter__ returned
    cc_raised,      \* the exception raised in __enter__ or in the with-block
    cc_exc,         \* the exception that reached the caller of the with statement
    cc_body_ran,    \* the with-block was executed
    cc_rm_failed,   \* shutil.rmtree met an error, which it ignored
    dv_run,         \* detect_vcs: what subprocess.check_output does
    dv_result,      \* detect_vcs: the value returned ("unset" when none is)
    dv_raised,      \* detect_vcs: the exception it raised ("none" when none)
    dv_pc,          \* "call" before the call, "done" after it
    ft_gettempdir,  \* find_tempdir: what tempfile.gettempdir() returns
    ft_environ,     \* find_tempdir: ANTSIBULL_FILEUTILS_TMPDIR in os.environ, with its value
    ft_cwd,         \* find_tempdir: the current directory
    ft_dirs,        \* find_tempdir: the absolute paths that are directories
    ft_acceptable,  \* find_tempdir: the absolute paths is_acceptable accepts
    ft_result,      \* find_tempdir: the path returned (kind "unset" when none is)
    ft_raised,      \* find_tempdir: the exception it raised ("none" when none)
    ft_pc,          \* "call" before the call, "done" after it
    td_directory,   \* TemporaryDirectoryHelper: self._directory
    td_delete,      \* TemporaryDirectoryHelper: self._delete
    td_ignore,      \* TemporaryDirectoryHelper: self._ignore_cleanup_errors
    td_tree,        \* what is at the path of the directory
    td_pc,          \* "init", "body", "exiting", "exited"
    td_yield,       \* what __enter__ returned
    td_name,        \* what the property name returned last
    td_body_end,    \* what was at the path when the with-block ended
    td_body_exc,    \* the exception raised in the with-block ("none" when none)
    td_exc,         \* the exception that left the with statement
    td_fault,       \* shutil.rmtree met an error in cleanup
    io_source,      \* io.copy_file: the bytes of the source file ("absent": no file)
    io_dest,        \* io.copy_file: the bytes of the destination before the call
    io_same,        \* io.copy_file: source_path and dest_path are the same file
    io_check,       \* io.copy_file: check_content
    io_limit,       \* io.copy_file: file_check_content
    io_chunksize,   \* io.copy_file: chunksize
    io_after,       \* io.copy_file: the two files after the call, what it returned
                    \* or raised, and whether it opened the destination for writing
    io_pc,          \* "call" before the call, "done" after it
    cd_called       \* the arguments of the calls of _create_dir that returned, in order

ii_vars == <<ii_directory, ii_link, ii_result, ii_pc>>

ld_vars == <<ld_tc, ld_tc2, ld_directory, ld_literal, ld_dec, ld_dec2, ld_pc>>

cc_vars == <<cc_pc, cc_dir, cc_calls, cc_yield, cc_raised, cc_exc, cc_body_ran, cc_rm_failed>>

policy_vars == <<normalize_links, keep_inside_symlinks, keep_outside_symlinks, exclude_root,
                 to_path>>

walk_vars == <<exclude_root_set, frames, root, directory, w_files, w_dirs>>

git_vars == <<files, g_i, error_message>>

copier_vars == <<fs, policy_vars, pc, op, outcome, tc, walk_vars, git_vars, relative_path>>

dv_vars == <<dv_run, dv_result, dv_raised, dv_pc>>

ft_vars == <<ft_gettempdir, ft_environ, ft_cwd, ft_dirs, ft_acceptable, ft_result, ft_raised,
             ft_pc>>

td_vars == <<td_directory, td_delete, td_ignore, td_tree, td_pc, td_yield, td_name, td_body_end,
             td_body_exc, td_exc, td_fault>>

io_vars == <<io_source, io_dest, io_same, io_check, io_limit, io_chunksize, io_after, io_pc>>

cd_vars == <<cd_called>>

util_vars == <<dv_vars, ft_vars, td_vars, io_vars, cd_vars>>

vars == <<ii_vars, ld_vars, cc_vars, util_vars, copier_vars>>

\* the destinations the two calls are given unless said otherwise
DefaultDest == [c \in {"Copier", "GitCopier"} |-> IF c = "Copier" THEN DestWalk ELSE DestGit]

NoDecision == [link |-> <<>>, internal |-> FALSE, keep |-> FALSE]

\* the variables of the containment check, when it is not what runs
InternalOff ==
    /\ ii_directory = <<>>
    /\ ii_link = <<>>
    /\ ii_result = "none"
    /\ ii_pc = "off"

\* the variables of the link decision, when it is not what runs
LinkOff ==
    /\ ld_tc = NoCopier
    /\ ld_tc2 = NoCopier
    /\ ld_directory = <<>>
    /\ ld_literal = <<>>
    /\ ld_dec = NoDecision
    /\ ld_dec2 = NoDecision
    /\ ld_pc = "off"

\* the variables of the CollectionCopier before it is constructed, pc being
\* "none", or when it is not what runs, pc being "off"
CollectionAt(pc_) ==
    /\ cc_pc = pc_
    /\ cc_dir = <<>>
    /\ cc_calls = <<>>
    /\ cc_yield = <<>>
    /\ cc_raised = "none"
    /\ cc_exc = "none"
    /\ cc_body_ran = FALSE
    /\ cc_rm_failed = FALSE

CollectionOff == CollectionAt("off")

\* the variables of detect_vcs, when it is not what runs
DetectOff ==
    /\ dv_run = [kind |-> "off"]
    /\ dv_result = "unset"
    /\ dv_raised = "none"
    /\ dv_pc = "off"

\* the variables of find_tempdir, when it is not what runs
TempdirOff ==
    /\ ft_gettempdir = <<>>
    /\ ft_environ = [set |-> FALSE]
    /\ ft_cwd = <<>>
    /\ ft_dirs = {}
    /\ ft_acceptable = {}
    /\ ft_result = [kind |-> "unset"]
    /\ ft_raised = "none"
    /\ ft_pc = "off"

\* nothing at a path
Absent == [kind |-> "absent", children |-> {}]

\* the variables of TemporaryDirectoryHelper, when it is not what runs
HelperOff ==
    /\ td_directory = <<>>
    /\ td_delete = TRUE
    /\ td_ignore = FALSE
    /\ td_tree = Absent
    /\ td_pc = "off"
    /\ td_yield = "unset"
    /\ td_name = [at |-> "never", value |-> <<>>]
    /\ td_body_end = Absent
    /\ td_body_exc = "none"
    /\ td_exc = "none"
    /\ td_fault = FALSE

\* no file at a path
NoFile == [exists |-> FALSE, bytes |-> <<>>]

\* copy_file not called yet
NotCalled == [source |-> NoFile, dest |-> NoFile, result |-> "unset", raised |-> "none",
              wrote |-> FALSE]

\* the variables of io.copy_file, when it is not what runs
IoOff ==
    /\ io_source = NoFile
    /\ io_dest = NoFile
    /\ io_same = FALSE
    /\ io_check = TRUE
    /\ io_limit = 0
    /\ io_chunksize = 1
    /\ io_after = NotCalled
    /\ io_pc = "off"

\* no call of _create_dir is followed
CreateDirOff == cd_called = <<>>

UtilOff == DetectOff /\ TempdirOff /\ HelperOff /\ IoOff /\ CreateDirOff

\* the copier before any call
CopierIdle ==
    /\ pc = "idle"
    /\ op = "none"
    /\ outcome = [c \in {"Copier", "GitCopier"} |-> "none"]
    /\ tc = NoCopier
    /\ exclude_root_set = {}
    /\ frames = <<>>
    /\ root = <<>>
    /\ directory = <<>>
    /\ w_files = {}
    /\ w_dirs = {}
    /\ files = <<>>
    /\ g_i = 0
    /\ error_message = <<>>
    /\ relative_path = <<>>

\* the variables of the copier, when it is not what runs
CopierOff ==
    /\ fs = FsOf(BaseEntries)
    /\ normalize_links = TRUE
    /\ keep_inside_symlinks = TRUE
    /\ keep_outside_symlinks = FALSE
    /\ exclude_root = <<>>
    /\ to_path = DefaultDest
    /\ CopierIdle
    /\ CollectionOff

\* the relative base directories
RelDirs == {d \in Strings(MaxDirLen) : ~isabs(d)}

InitInternal ==
    /\ ii_directory \in RelDirs
    /\ ii_link \in Strings(MaxLinkLen)
    /\ ii_result = "none"
    /\ ii_pc = "call"
    /\ LinkOff
    /\ CopierOff
    /\ UtilOff

IsInternalCall ==
    /\ ii_pc = "call"
    /\ ii_result' = _is_internal(ii_directory, ii_link)
    /\ ii_pc' = "done"
    /\ UNCHANGED <<ii_directory, ii_link, ld_vars, cc_vars, util_vars, copier_vars>>

NextInternal == IsInternalCall

SpecInternal == InitInternal /\ [][NextInternal]_vars

-----------------------------------------------------------------------------
(* _copy_link, lines 69-75: the decision about one symlink, taken by two   *)
(* _TreeCopier instances with the same flags and different source roots.   *)

\* longest literal link text drawn for the link decision
MaxTextLen == 5

\* the source roots of the two instances
LinkRoot == <<"/", "a">>

LinkRoot2 == <<"/", "a", "a">>

\* the directories the link lies in
LinkDirs == {<<>>, <<"a">>, <<"a", "/", "a">>}

\* what _copy_link decides: the text, the classification, keep
Decision(c, dir, literal) ==
    [link |-> LinkText(c, dir, literal),
     internal |-> LinkInternal(c, dir, LinkText(c, dir, literal)),
     keep |-> LinkKeep(c, dir, LinkText(c, dir, literal))]

InitLink ==
    /\ InternalOff
    /\ CopierOff
    /\ UtilOff
    /\ \E ki, ko, nl \in BOOLEAN :
           /\ ld_tc = Constructed(Result(fs, "none"), LinkRoot, DestWalk, ki, ko, nl).tc
           /\ ld_tc2 = Constructed(Result(fs, "none"), LinkRoot2, DestWalk, ki, ko, nl).tc
    /\ ld_directory \in LinkDirs
    /\ ld_literal \in Strings(MaxTextLen) \ {<<>>}
    /\ ld_dec = NoDecision
    /\ ld_dec2 = NoDecision
    /\ ld_pc = "call"

CopyLinkDecide ==
    /\ ld_pc = "call"
    /\ ld_dec' = Decision(ld_tc, ld_directory, ld_literal)
    /\ ld_dec2' = Decision(ld_tc2, ld_directory, ld_literal)
    /\ ld_pc' = "done"
    /\ UNCHANGED <<ld_tc, ld_tc2, ld_directory, ld_literal, ii_vars, cc_vars, util_vars,
                   copier_vars>>

NextLink == CopyLinkDecide

SpecLink == InitLink /\ [][NextLink]_vars

-----------------------------------------------------------------------------
(* Copier.copy and GitCopier.copy on one source tree: the tree is copied   *)
(* to DestWalk by Copier.copy and then to DestGit by GitCopier.copy, with  *)
(* the same normalize_links and exclude_root.                              *)

KeepChoices == {<<TRUE, FALSE>>}

Init ==
    /\ InternalOff
    /\ LinkOff
    /\ CollectionOff
    /\ UtilOff
    /\ \E link \in LinkChoices : fs = FsOf(BaseEntries \cup link)
    /\ normalize_links \in BOOLEAN
    /\ \E k \in KeepChoices :
           /\ keep_inside_symlinks = k[1]
           /\ keep_outside_symlinks = k[2]
    /\ exclude_root \in ExcludeChoices
    /\ to_path = DefaultDest
    /\ CopierIdle

\* a call ends: it returns or raises e
Finish(call, e) ==
    /\ pc' = "idle"
    /\ outcome' = [outcome EXCEPT ![call] = e]

\* the state after _TreeCopier.__init__ returned or raised (r) in Copier.copy
WalkConstructed(r) ==
    /\ fs' = r.fs
    /\ IF r.err # "none"
       THEN /\ Finish("Copier", r.err)
            /\ UNCHANGED <<tc, walk_vars>>
       ELSE /\ tc' = r.tc
            /\ pc' = "walk_next"
            /\ outcome' = [outcome EXCEPT !["Copier"] = "none"]
            /\ exclude_root_set' = {exclude_root[k] : k \in 1..Len(exclude_root)}
            /\ frames' = <<{r.tc.source}>>
            /\ root' = <<>>
            /\ directory' = <<>>
            /\ w_files' = {}
            /\ w_dirs' = {}

\* Copier.copy(Source, to_path, exclude_root=exclude_root) up to the first
\* directory os.walk yields
CopierCopy ==
    /\ pc = "idle"
    /\ cc_pc \in {"off", "copying"}
    /\ outcome["Copier"] = "none"
    /\ op' = "Copier"
    /\ WalkConstructed(TreeCopierInit(fs, Source, to_path["Copier"], keep_inside_symlinks,
                                      keep_outside_symlinks, normalize_links))
    /\ UNCHANGED <<ii_vars, ld_vars, util_vars, cc_vars, policy_vars, git_vars, relative_path>>

\* the stack of os.walk without the directory top of its last level
PopFrame(top) ==
    LET n == Len(frames)
    IN  IF frames[n] = {top} THEN SubSeq(frames, 1, n - 1)
        ELSE [frames EXCEPT ![n] = @ \ {top}]

\* os.walk does not descend into a symlink, nor into what it cannot list
WalkSkip ==
    /\ pc = "walk_next"
    /\ frames # <<>>
    /\ \E top \in frames[Len(frames)] :
           /\ islink(fs, top) \/ ~isdir(fs, top)
           /\ frames' = PopFrame(top)
    /\ UNCHANGED <<ii_vars, ld_vars, util_vars, cc_vars, fs, policy_vars, pc, op, outcome, tc, exclude_root_set,
                   root, directory, w_files, w_dirs, git_vars, relative_path>>

\* os.walk lists the next directory and yields (root, dirs, files); scandir
\* gives the entries in no particular order
WalkVisit ==
    /\ pc = "walk_next"
    /\ frames # <<>>
    /\ \E top \in frames[Len(frames)] :
           /\ ~islink(fs, top) /\ isdir(fs, top)
           /\ frames' = PopFrame(top)
           /\ root' = top
           /\ directory' = LET d == relpath(top, tc.source)
                           IN  IF d = curdir THEN <<>> ELSE d
           /\ w_dirs' = {split(c)[2] : c \in {c \in Children(fs, top) : isdir(fs, c)}}
           /\ w_files' = {split(c)[2] : c \in {c \in Children(fs, top) : ~isdir(fs, c)}}
    /\ pc' = "walk_files"
    /\ UNCHANGED <<ii_vars, ld_vars, util_vars, cc_vars, fs, policy_vars, op, outcome, tc, exclude_root_set,
                   git_vars, relative_path>>

\* the state after _copy_file / copy_file returned or raised (r)
Copied(call, r, path) ==
    /\ relative_path' = path
    /\ fs' = r.fs
    /\ tc' = r.tc
    /\ IF r.err # "none"
       THEN Finish(call, r.err)
       ELSE UNCHANGED <<pc, outcome>>

\* walk, lines 131-135: one iteration of the loop over files
WalkFile ==
    /\ pc = "walk_files"
    /\ \E file \in w_files :
           /\ w_files' = w_files \ {file}
           /\ IF file \in exclude_root_set
              THEN UNCHANGED <<fs, tc, pc, outcome, relative_path>>
              ELSE Copied("Copier",
                          _copy_file(fs, tc, directory, join(directory, file)),
                          join(directory, file))
    /\ UNCHANGED <<ii_vars, ld_vars, util_vars, cc_vars, policy_vars, op, exclude_root_set, frames, root,
                   directory, w_dirs, git_vars>>

\* the end of the loop body without exclude_root_set.clear() of line 143
DirsCreatedKeepingExcludes(r, dirs) ==
    /\ fs' = r.fs
    /\ tc' = r.tc
    /\ w_dirs' = dirs
    /\ IF r.err # "none"
       THEN /\ Finish("Copier", r.err)
            /\ UNCHANGED <<exclude_root_set, frames>>
       ELSE /\ UNCHANGED exclude_root_set
            /\ frames' = IF dirs = {} THEN frames
                         ELSE Append(frames, {join(root, d) : d \in dirs})
            /\ pc' = "walk_next"
            /\ UNCHANGED outcome

\* the state after the loop over dirs returned or raised (r)
DirsCreated(r, dirs) ==
    /\ fs' = r.fs
    /\ tc' = r.tc
    /\ w_dirs' = dirs
    /\ IF r.err # "none"
       THEN /\ Finish("Copier", r.err)
            /\ UNCHANGED <<exclude_root_set, frames>>
       ELSE /\ exclude_root_set' = {}
            /\ frames' = IF dirs = {} THEN frames
                         ELSE Append(frames, {join(root, d) : d \in dirs})
            /\ pc' = "walk_next"
            /\ UNCHANGED outcome

\* walk, lines 136-143, and the generator taking the pruned dirs back
WalkDirs ==
    /\ pc = "walk_files"
    /\ w_files = {}
    /\ DirsCreated(CreateDirs(Outcome(fs, tc, "none"), directory,
                              w_dirs \ exclude_root_set),
                   w_dirs \ exclude_root_set)
    /\ UNCHANGED <<ii_vars, ld_vars, util_vars, cc_vars, policy_vars, op, root, directory, w_files, git_vars,
                   relative_path>>

\* os.walk is exhausted: Copier.copy returns, and the locals of walk are gone
WalkDone ==
    /\ pc = "walk_next"
    /\ frames = <<>>
    /\ Finish("Copier", "ok")
    /\ root' = <<>>
    /\ directory' = <<>>
    /\ w_dirs' = {}
    /\ relative_path' = <<>>
    /\ UNCHANGED <<ii_vars, ld_vars, util_vars, cc_vars, fs, policy_vars, op, tc, exclude_root_set, frames,
                   w_files, git_vars>>

\* the state after _TreeCopier.__init__ returned or raised (r) in GitCopier.copy
GitConstructed(r) ==
    /\ fs' = r.fs
    /\ IF r.err # "none"
       THEN /\ Finish("GitCopier", r.err)
            /\ UNCHANGED tc
       ELSE /\ tc' = r.tc
            /\ pc' = "git_files"
            /\ outcome' = [outcome EXCEPT !["GitCopier"] = "none"]

\* GitCopier.copy(Source, to_path, exclude_root=exclude_root) up to the loop
\* over the files that list_git_files returned
GitCopierCopy ==
    /\ pc = "idle"
    /\ outcome["Copier"] # "none"
    /\ outcome["GitCopier"] = "none"
    /\ op' = "GitCopier"
    /\ files' \in FileLists
    /\ g_i' = 1
    /\ GitConstructed(TreeCopierInit(fs, Source, to_path["GitCopier"], keep_inside_symlinks,
                                     keep_outside_symlinks, normalize_links))
    /\ UNCHANGED <<ii_vars, ld_vars, util_vars, cc_vars, policy_vars, walk_vars, relative_path, error_message>>

\* vcs.list_git_files: the messages of the ValueError it raises
ListErrors == {"Error while running git", "Cannot find git executable"}

\* GitCopier.copy, lines 216-218: the message of the CopierError
CopierErrorMessage(from_path, exc) ==
    <<"Error while listing files not ignored by Git in ", from_path, ": ", exc>>

\* GitCopier.copy fails to list after it has made the destination root
GitListFailsAfterMkdir ==
    /\ pc = "idle"
    /\ outcome["Copier"] # "none"
    /\ outcome["GitCopier"] = "none"
    /\ op' = "GitCopier"
    /\ Finish("GitCopier", "CopierError")
    /\ fs' = mkdir(fs, to_path["GitCopier"]).fs
    /\ \E exc \in ListErrors : error_message' = CopierErrorMessage(Source, exc)
    /\ UNCHANGED <<ii_vars, ld_vars, util_vars, cc_vars, policy_vars, tc, walk_vars, files, g_i, relative_path>>

\* GitCopier.copy, lines 212-219: list_git_files raises ValueError
GitListFails ==
    /\ pc = "idle"
    /\ outcome["Copier"] # "none"
    /\ outcome["GitCopier"] = "none"
    /\ op' = "GitCopier"
    /\ Finish("GitCopier", "CopierError")
    /\ \E exc \in ListErrors : error_message' = CopierErrorMessage(Source, exc)
    /\ UNCHANGED <<ii_vars, ld_vars, util_vars, cc_vars, fs, policy_vars, tc, walk_vars, files, g_i, relative_path>>

\* GitCopier.copy, lines 232-240: one iteration of the loop over files
GitFile ==
    /\ pc = "git_files"
    /\ g_i <= Len(files)
    /\ IF GitExcluded(exclude_root, decode(files[g_i]))
       THEN UNCHANGED <<fs, tc, pc, outcome, relative_path>>
       ELSE Copied("GitCopier", copy_file(fs, tc, decode(files[g_i]), TRUE),
                   decode(files[g_i]))
    /\ g_i' = IF pc' = "idle" THEN g_i ELSE g_i + 1
    /\ UNCHANGED <<ii_vars, ld_vars, util_vars, cc_vars, policy_vars, op, walk_vars, files, error_message>>

\* GitCopier(copy_repo_structure=False), the default: nothing follows the
\* loop, GitCopier.copy returns
GitDone ==
    /\ pc = "git_files"
    /\ g_i > Len(files)
    /\ Finish("GitCopier", "ok")
    /\ relative_path' = <<>>
    /\ UNCHANGED <<ii_vars, ld_vars, util_vars, cc_vars, fs, policy_vars, op, tc, walk_vars, git_vars>>

Next ==
    \/ CopierCopy
    \/ WalkSkip
    \/ WalkVisit
    \/ WalkFile
    \/ WalkDirs
    \/ WalkDone
    \/ GitCopierCopy
    \/ GitListFails
    \/ GitFile
    \/ GitDone

Spec == Init /\ [][Next]_vars

-----------------------------------------------------------------------------
(* Copier.copy and GitCopier.copy with destinations that are free, that    *)
(* exist already or whose parent directory does not exist.                 *)

\* to_path: free; below a directory that does not exist; an existing
\* directory with content; an existing file
DestChoices ==
    { DestWalk,
      Abs(<<"n", "t">>),
      Abs(<<"p">>),
      Abs(<<"o">>) }

\* no symlink, or a root-level symlink to the directory d
DestLinkChoices == {{}, {SrcLink(Abs(<<"s", "l">>), Rel(<<"d">>))}}

InitDest ==
    /\ InternalOff
    /\ LinkOff
    /\ CollectionOff
    /\ UtilOff
    /\ \E link \in DestLinkChoices : fs = FsOf(BaseEntries \cup link)
    /\ normalize_links = TRUE
    /\ keep_inside_symlinks = TRUE
    /\ keep_outside_symlinks = FALSE
    /\ exclude_root = <<>>
    /\ to_path \in [{"Copier", "GitCopier"} -> DestChoices]
    /\ CopierIdle

SpecDest == InitDest /\ [][Next]_vars

-----------------------------------------------------------------------------
(* _TreeCopier(...).walk() alone, without exclusions, for every value of   *)
(* the three flags, on source trees with and without a symlink.            *)

\* the source trees: the one above, one where d is empty, one with a file
\* two directories down
TreeChoices ==
    { BaseEntries,
      BaseEntries \ {SrcFile(Abs(<<"s", "d", "e">>))},
      BaseEntries \cup {SrcFile(Abs(<<"s", "m", "d", "e">>))} }

\* no symlink, or a root-level symlink to the directory d or to the file e
TreeLinkChoices ==
    { {},
      {SrcLink(Abs(<<"s", "l">>), Rel(<<"d">>))},
      {SrcLink(Abs(<<"s", "l">>), Rel(<<"e">>))} }

InitTree ==
    /\ InternalOff
    /\ LinkOff
    /\ CollectionOff
    /\ UtilOff
    /\ \E tree \in TreeChoices, link \in TreeLinkChoices :
           fs = FsOf(tree \cup link)
    /\ normalize_links \in BOOLEAN
    /\ keep_inside_symlinks \in BOOLEAN
    /\ keep_outside_symlinks \in BOOLEAN
    /\ exclude_root = <<>>
    /\ to_path = DefaultDest
    /\ CopierIdle

NextTree ==
    \/ CopierCopy
    \/ WalkSkip
    \/ WalkVisit
    \/ WalkFile
    \/ WalkDirs
    \/ WalkDone

SpecTree == InitTree /\ [][NextTree]_vars

-----------------------------------------------------------------------------
(* copier.CollectionCopier: constructed, then used once in a with          *)
(* statement; its copier is a Copier, whose copy is the walk above.        *)

\* tempfile._get_tempdir(): the directory the temporary roots are made in
TempDir == Abs(<<"b">>)

\* the name tempfile.mkdtemp(prefix="antsibull-fileutils") picks
TempName == "antsibull-fileutils0"

\* the arguments namespace and name
Namespace == "foo"

Name == "bar"

\* shutil.rmtree(d, ignore_errors=True) that met no error
rmtree(f, d) ==
    [p \in {q \in DOMAIN f : q # normpath(d) /\ ~StartsWith(q, normpath(d) \o sep)} |-> f[p]]

\* tempfile.ansible_mkdtemp(prefix=...): <<the filesystem, the path, the error>>
ansible_mkdtemp(f) ==
    [fs |-> mkdir(f, join(TempDir, <<TempName>>)).fs,
     path |-> join(TempDir, <<TempName>>),
     err |-> mkdir(f, join(TempDir, <<TempName>>)).err]

\* __enter__, lines 280-282
collection_container_dir(dir) ==
    join(join(join(dir, <<"collections">>), <<"ansible_collections">>), <<Namespace>>)

\* __enter__, line 285
collection_dir(dir) == join(collection_container_dir(dir), <<Name>>)

\* the source trees: no symlink, a symlink to a directory, a symlink that
\* leads to nothing outside the tree
CollectionLinkChoices ==
    { {},
      {SrcLink(Abs(<<"s", "l">>), Rel(<<"d">>))},
      {SrcLink(Abs(<<"s", "l">>), Up \o Rel(<<"x">>))} }

InitCollection ==
    /\ InternalOff
    /\ LinkOff
    /\ \E link \in CollectionLinkChoices :
           fs = FsOf(BaseEntries \cup link \cup {SrcDir(TempDir)})
    /\ normalize_links \in BOOLEAN
    /\ keep_inside_symlinks = TRUE
    /\ keep_outside_symlinks = FALSE
    /\ exclude_root = <<>>
    /\ to_path = DefaultDest
    /\ CopierIdle
    /\ CollectionAt("none")
    /\ UtilOff

\* CollectionCopier.__init__ that only picks the path of its directory
CollectionCopierInitLazy ==
    /\ cc_pc = "none"
    /\ cc_dir' = join(TempDir, <<TempName>>)
    /\ cc_pc' = "constructed"
    /\ UNCHANGED <<ii_vars, ld_vars, util_vars, cc_calls, cc_yield, cc_raised, cc_exc, cc_body_ran,
                   cc_rm_failed, copier_vars>>

\* CollectionCopier.__init__
CollectionCopierInit ==
    /\ cc_pc = "none"
    /\ fs' = ansible_mkdtemp(fs).fs
    /\ cc_dir' = realpath(ansible_mkdtemp(fs).fs, ansible_mkdtemp(fs).path)
    /\ cc_pc' = "constructed"
    /\ UNCHANGED <<ii_vars, ld_vars, util_vars, cc_calls, cc_yield, cc_raised, cc_exc, cc_body_ran,
                   cc_rm_failed, policy_vars, pc, op, outcome, tc, walk_vars, git_vars,
                   relative_path>>

\* lines 295-297 and 299-300: shutil.rmtree(self.dir, ignore_errors=True),
\* which removes the tree or meets an error and leaves it
Cleanup ==
    \E failed \in BOOLEAN :
        /\ fs' = IF failed THEN fs ELSE rmtree(fs, cc_dir)
        /\ cc_rm_failed' = failed

\* __enter__ that makes the directory of the collection itself
EnterMakingCollectionDir ==
    /\ cc_pc = "constructed"
    /\ fs' = makedirs(fs, collection_dir(cc_dir)).fs
    /\ cc_calls' = Append(cc_calls, <<Source, collection_dir(cc_dir)>>)
    /\ to_path' = [to_path EXCEPT !["Copier"] = collection_dir(cc_dir)]
    /\ cc_pc' = "copying"
    /\ UNCHANGED <<ii_vars, ld_vars, util_vars, cc_dir, cc_yield, cc_raised, cc_exc, cc_body_ran,
                   cc_rm_failed, normalize_links, keep_inside_symlinks,
                   keep_outside_symlinks, exclude_root, pc, op, outcome, tc, walk_vars,
                   git_vars, relative_path>>

\* __enter__, lines 279-288: up to the call of self.copier.copy
Enter ==
    /\ cc_pc = "constructed"
    /\ fs' = makedirs(fs, collection_container_dir(cc_dir)).fs
    /\ cc_calls' = Append(cc_calls, <<Source, collection_dir(cc_dir)>>)
    /\ to_path' = [to_path EXCEPT !["Copier"] = collection_dir(cc_dir)]
    /\ cc_pc' = "copying"
    /\ UNCHANGED <<ii_vars, ld_vars, util_vars, cc_dir, cc_yield, cc_raised, cc_exc, cc_body_ran,
                   cc_rm_failed, normalize_links, keep_inside_symlinks,
                   keep_outside_symlinks, exclude_root, pc, op, outcome, tc, walk_vars,
                   git_vars, relative_path>>

\* __enter__, lines 283 and 295-297: os.makedirs raises an OSError
EnterMakedirsFails ==
    /\ cc_pc = "constructed"
    /\ Cleanup
    /\ cc_raised' = "OSError"
    /\ cc_exc' = "OSError"
    /\ cc_pc' = "raised"
    /\ UNCHANGED <<ii_vars, ld_vars, util_vars, cc_dir, cc_calls, cc_yield, cc_body_ran, policy_vars,
                   pc, op, outcome, tc, walk_vars, git_vars, relative_path>>

\* __enter__, lines 290-294: self.copier.copy returned
EnterReturns ==
    /\ cc_pc = "copying"
    /\ pc = "idle"
    /\ outcome["Copier"] = "ok"
    /\ cc_yield' = <<cc_dir, collection_dir(cc_dir)>>
    /\ cc_pc' = "entered"
    /\ UNCHANGED <<ii_vars, ld_vars, util_vars, cc_dir, cc_calls, cc_raised, cc_exc, cc_body_ran,
                   cc_rm_failed, copier_vars>>

\* __enter__, lines 295-297: self.copier.copy raised an Exception
EnterCopyFails ==
    /\ cc_pc = "copying"
    /\ pc = "idle"
    /\ outcome["Copier"] \notin {"none", "ok"}
    /\ Cleanup
    /\ cc_raised' = outcome["Copier"]
    /\ cc_exc' = outcome["Copier"]
    /\ cc_pc' = "raised"
    /\ UNCHANGED <<ii_vars, ld_vars, util_vars, cc_dir, cc_calls, cc_yield, cc_body_ran, policy_vars,
                   pc, op, outcome, tc, walk_vars, git_vars, relative_path>>

\* __enter__: KeyboardInterrupt is raised while self.copier.copy runs; it is
\* no Exception, so the handler of line 295 does not take it
EnterInterrupted ==
    /\ cc_pc = "copying"
    /\ pc # "idle"
    /\ Finish("Copier", "KeyboardInterrupt")
    /\ cc_raised' = "KeyboardInterrupt"
    /\ cc_exc' = "KeyboardInterrupt"
    /\ cc_pc' = "raised"
    /\ UNCHANGED <<ii_vars, ld_vars, util_vars, cc_dir, cc_calls, cc_yield, cc_body_ran, cc_rm_failed,
                   fs, policy_vars, op, tc, walk_vars, git_vars, relative_path>>

\* the exceptions the with-block raises
BodyErrors == {"AssertionError", "KeyboardInterrupt"}

\* the with-block ends normally, then __exit__(None, None, None)
BodyReturns ==
    /\ cc_pc = "entered"
    /\ Cleanup
    /\ cc_body_ran' = TRUE
    /\ cc_pc' = "exited"
    /\ UNCHANGED <<ii_vars, ld_vars, util_vars, cc_dir, cc_calls, cc_yield, cc_raised, cc_exc,
                   policy_vars, pc, op, outcome, tc, walk_vars, git_vars, relative_path>>

\* the with-block raises, then an __exit__ that returns True
BodyRaisesSuppressed ==
    /\ cc_pc = "entered"
    /\ Cleanup
    /\ cc_body_ran' = TRUE
    /\ \E e \in BodyErrors : cc_raised' = e
    /\ cc_pc' = "exited"
    /\ UNCHANGED <<ii_vars, ld_vars, util_vars, cc_dir, cc_calls, cc_yield, cc_exc, policy_vars, pc,
                   op, outcome, tc, walk_vars, git_vars, relative_path>>

\* the with-block raises, then __exit__(type_, value, traceback_), which
\* returns None: the exception goes on
BodyRaises ==
    /\ cc_pc = "entered"
    /\ Cleanup
    /\ cc_body_ran' = TRUE
    /\ \E e \in BodyErrors :
           /\ cc_raised' = e
           /\ cc_exc' = e
    /\ cc_pc' = "raised"
    /\ UNCHANGED <<ii_vars, ld_vars, util_vars, cc_dir, cc_calls, cc_yield, policy_vars, pc, op,
                   outcome, tc, walk_vars, git_vars, relative_path>>

NextCollection ==
    \/ CollectionCopierInit
    \/ Enter
    \/ EnterMakedirsFails
    \/ CopierCopy
    \/ WalkSkip
    \/ WalkVisit
    \/ WalkFile
    \/ WalkDirs
    \/ WalkDone
    \/ EnterReturns
    \/ EnterCopyFails
    \/ EnterInterrupted
    \/ BodyReturns
    \/ BodyRaises

SpecCollection == InitCollection /\ [][NextCollection]_vars

-----------------------------------------------------------------------------
(* copier.CollectionCopier: one instance entered more than once, also      *)
(* while it is entered                                                     *)

\* most calls of __enter__ followed on one instance
MaxEnters == 2

\* os.makedirs(p), exist_ok being False: a path that exists is an error
MakedirsNew(f, p) ==
    IF lexists(f, p) THEN Result(f, "FileExistsError") ELSE makedirs(f, p)

\* __enter__ after the scope was left: os.makedirs makes the directories
\* anew, the root that __exit__ removed included, or raises, then lines
\* 295-297
EnterAgain ==
    /\ cc_pc = "exited"
    /\ Len(cc_calls) < MaxEnters
    /\ LET r == MakedirsNew(fs, collection_container_dir(cc_dir))
       IN  IF r.err = "none"
           THEN /\ fs' = r.fs
                /\ cc_calls' = Append(cc_calls, <<Source, collection_dir(cc_dir)>>)
                /\ outcome' = [outcome EXCEPT !["Copier"] = "none"]
                /\ cc_pc' = "copying"
                /\ UNCHANGED <<cc_raised, cc_exc, cc_rm_failed>>
           ELSE /\ Cleanup
                /\ cc_raised' = r.err
                /\ cc_exc' = r.err
                /\ cc_pc' = "raised"
                /\ UNCHANGED <<cc_calls, outcome>>
    /\ UNCHANGED <<ii_vars, ld_vars, util_vars, cc_dir, cc_yield, cc_body_ran, policy_vars, pc,
                   op, tc, walk_vars, git_vars, relative_path>>

\* __enter__ while the scope of an earlier __enter__ is active: what
\* os.makedirs does of the directories of that scope, then lines 295-297;
\* the earlier scope stays active
EnterWhileEntered ==
    /\ cc_pc = "entered"
    /\ Len(cc_calls) < MaxEnters
    /\ LET r == MakedirsNew(fs, collection_container_dir(cc_dir))
       IN  IF r.err = "none"
           THEN /\ fs' = r.fs
                /\ cc_calls' = Append(cc_calls, <<Source, collection_dir(cc_dir)>>)
                /\ outcome' = [outcome EXCEPT !["Copier"] = "none"]
                /\ cc_pc' = "copying"
                /\ UNCHANGED <<cc_raised, cc_exc, cc_rm_failed>>
           ELSE /\ Cleanup
                /\ cc_raised' = r.err
                /\ cc_exc' = r.err
                /\ cc_pc' = "entered_twice"
                /\ UNCHANGED <<cc_calls, outcome>>
    /\ UNCHANGED <<ii_vars, ld_vars, util_vars, cc_dir, cc_yield, cc_body_ran, policy_vars, pc,
                   op, tc, walk_vars, git_vars, relative_path>>

\* the with-block of the earlier scope ends after the second __enter__
\* raised, then __exit__
BodyReturnsLate ==
    /\ cc_pc = "entered_twice"
    /\ Cleanup
    /\ cc_body_ran' = TRUE
    /\ cc_pc' = "exited"
    /\ UNCHANGED <<ii_vars, ld_vars, util_vars, cc_dir, cc_calls, cc_yield, cc_raised, cc_exc,
                   policy_vars, pc, op, outcome, tc, walk_vars, git_vars, relative_path>>

NextReenter ==
    \/ CollectionCopierInit
    \/ Enter
    \/ CopierCopy
    \/ WalkSkip
    \/ WalkVisit
    \/ WalkFile
    \/ WalkDirs
    \/ WalkDone
    \/ EnterReturns
    \/ EnterCopyFails
    \/ BodyReturns
    \/ EnterAgain
    \/ EnterWhileEntered
    \/ BodyReturnsLate

SpecReenter == InitCollection /\ [][NextReenter]_vars

-----------------------------------------------------------------------------
(* Copier.copy with to_path inside from_path                               *)

\* longest path of a directory the walk is followed into
MaxPathLen == 12

\* the destination inside the source tree
DestInside == join(Source, Rel(<<"t">>))

\* the source trees: a file, or a file and a directory with a file
InsideChoices ==
    { {SrcDir(sep), SrcDir(Source), SrcFile(Abs(<<"s", "e">>))},
      {SrcDir(sep), SrcDir(Source), SrcFile(Abs(<<"s", "e">>)), SrcDir(Abs(<<"s", "d">>)),
       SrcFile(Abs(<<"s", "d", "e">>))} }

InitInside ==
    /\ InternalOff
    /\ LinkOff
    /\ CollectionOff
    /\ UtilOff
    /\ \E tree \in InsideChoices : fs = FsOf(tree)
    /\ normalize_links \in BOOLEAN
    /\ keep_inside_symlinks \in BOOLEAN
    /\ keep_outside_symlinks = FALSE
    /\ exclude_root \in {<<>>, <<Rel(<<"t">>)>>}
    /\ to_path = [DefaultDest EXCEPT !["Copier"] = DestInside]
    /\ CopierIdle

\* os.walk lists the next directory, as long as its path is not longer
\* than MaxPathLen
WalkVisitShort ==
    /\ frames # <<>>
    /\ \A top \in frames[Len(frames)] : Len(top) <= MaxPathLen
    /\ WalkVisit

\* no tree of InsideChoices holds a symbolic link, so os.walk skips nothing
NextInside ==
    \/ CopierCopy
    \/ WalkVisitShort
    \/ WalkFile
    \/ WalkDirs
    \/ WalkDone

SpecInside == InitInside /\ [][NextInside]_vars

-----------------------------------------------------------------------------
(* vcs.detect_vcs                                                          *)

\* longest output of the git command drawn
MaxOutLen == 5

\* the characters of the output: those of 'true', another letter, blanks
OutAlphabet == {"t", "r", "u", "e", " ", "\n"}

Outputs == UNION {[1..k -> OutAlphabet] : k \in 0..MaxOutLen}

\* the characters str.strip() removes
Whitespace == {" ", "\n"}

RECURSIVE lstrip(_)
lstrip(text) ==
    IF text # <<>> /\ Head(text) \in Whitespace THEN lstrip(Tail(text)) ELSE text

RECURSIVE rstrip(_)
rstrip(text) ==
    IF text # <<>> /\ text[Len(text)] \in Whitespace
    THEN rstrip(SubSeq(text, 1, Len(text) - 1))
    ELSE text

\* str.strip()
strip(text) == rstrip(lstrip(text))

\* what subprocess.check_output(..., text=True, encoding="utf-8") raises:
\* non-zero exit; no such binary; binary not executable; a component of the
\* path of the binary is no directory; output that is no UTF-8
LaunchErrors ==
    {"CalledProcessError", "FileNotFoundError", "PermissionError", "NotADirectoryError",
     "UnicodeDecodeError"}

\* what subprocess.check_output does: it returns the output or raises
Runs ==
    {[kind |-> "output", out |-> o] : o \in Outputs}
        \cup {[kind |-> e] : e \in LaunchErrors}

\* detect_vcs: the value returned, or the exception that leaves it
DetectVcs(run) ==
    IF run.kind = "output"
    THEN IF strip(run.out) = <<"t", "r", "u", "e">>
         THEN [result |-> "git", raised |-> "none"]
         ELSE [result |-> "none", raised |-> "none"]
    ELSE IF run.kind \in {"CalledProcessError", "FileNotFoundError"}
    THEN [result |-> "none", raised |-> "none"]
    ELSE [result |-> "unset", raised |-> run.kind]

InitDetect ==
    /\ InternalOff
    /\ LinkOff
    /\ CopierOff
    /\ CreateDirOff
    /\ TempdirOff
    /\ HelperOff
    /\ IoOff
    /\ dv_run \in Runs
    /\ dv_result = "unset"
    /\ dv_raised = "none"
    /\ dv_pc = "call"

detect_vcs ==
    /\ dv_pc = "call"
    /\ dv_result' = DetectVcs(dv_run).result
    /\ dv_raised' = DetectVcs(dv_run).raised
    /\ dv_pc' = "done"
    /\ UNCHANGED <<dv_run, cd_vars, ii_vars, ld_vars, cc_vars, ft_vars, td_vars, io_vars, copier_vars>>

NextDetect == detect_vcs

SpecDetect == InitDetect /\ [][NextDetect]_vars

-----------------------------------------------------------------------------
(* tempfile.find_tempdir                                                   *)

\* pathlib.Path(text) on POSIX: whether the path has a root, and its names;
\* empty names and '.' are dropped
Path(text) ==
    [root  |-> isabs(text),
     parts |-> SelectSeq(StrSplit(text), LAMBDA c : c # <<>> /\ c # curdir)]

\* Path.absolute(): a relative path is put below the current directory
absolute(path, cwd) ==
    IF path.root THEN path
    ELSE [root |-> TRUE, parts |-> Path(cwd).parts \o path.parts]

\* Path.is_dir(): a relative path is looked up from the current directory
is_dir(path, dirs, cwd) == absolute(path, cwd) \in dirs

\* the value of the variable ANTSIBULL_FILEUTILS_TMPDIR
EnvValues ==
    {[set |-> FALSE]}
        \cup {[set |-> TRUE, value |-> v] :
                v \in {<<>>, Abs(<<"e">>), Abs(<<"e">>) \o sep, Rel(<<"r">>), curdir}}

\* what tempfile.gettempdir() returns
TempdirValues == {Abs(<<"sys">>), Abs(<<"tmp">>)}

Cwd == Abs(<<"w">>)

\* the directories that may exist, and that is_acceptable may accept
DirUniverse ==
    {Path(Abs(<<"sys">>)), Path(Abs(<<"e">>)), Path(Abs(<<"tmp">>)),
     Path(Abs(<<"var", "tmp">>)), Path(Abs(<<"usr", "tmp">>)), Path(Cwd),
     Path(Abs(<<"w", "r">>))}

\* the proposals with the conventional places before the variable
ProposalsEnvironLate(gettempdir, environ, cwd) ==
    <<Path(gettempdir)>>
        \o <<Path(Abs(<<"tmp">>)), Path(Abs(<<"var", "tmp">>)), Path(Abs(<<"usr", "tmp">>))>>
        \o (IF environ.set /\ environ.value # <<>>
            THEN <<Path(environ.value)>>
            ELSE <<>>)
        \o <<Path(cwd)>>

\* _get_tempdir_proposals: the paths the generator yields, in order
_get_tempdir_proposals(gettempdir, environ, cwd) ==
    <<Path(gettempdir)>>
        \o (IF environ.set /\ environ.value # <<>>
            THEN <<Path(environ.value)>>
            ELSE <<>>)
        \o <<Path(Abs(<<"tmp">>)), Path(Abs(<<"var", "tmp">>)), Path(Abs(<<"usr", "tmp">>))>>
        \o <<Path(cwd)>>

\* the loop of find_tempdir over the proposals left, then the ValueError
RECURSIVE FindIn(_, _, _, _)
FindIn(proposals, dirs, acceptable, cwd) ==
    IF proposals = <<>>
    THEN [result |-> [kind |-> "unset"], raised |-> "ValueError"]
    ELSE IF ~is_dir(Head(proposals), dirs, cwd)
    THEN FindIn(Tail(proposals), dirs, acceptable, cwd)
    ELSE IF absolute(Head(proposals), cwd) \in acceptable
    THEN [result |-> [kind |-> "path", path |-> absolute(Head(proposals), cwd)],
          raised |-> "none"]
    ELSE FindIn(Tail(proposals), dirs, acceptable, cwd)

InitTempdir ==
    /\ InternalOff
    /\ LinkOff
    /\ CopierOff
    /\ CreateDirOff
    /\ DetectOff
    /\ HelperOff
    /\ IoOff
    /\ ft_gettempdir \in TempdirValues
    /\ ft_environ \in EnvValues
    /\ ft_cwd = Cwd
    /\ ft_dirs \in SUBSET DirUniverse
    /\ ft_acceptable \in SUBSET DirUniverse
    /\ ft_result = [kind |-> "unset"]
    /\ ft_raised = "none"
    /\ ft_pc = "call"

find_tempdir ==
    /\ ft_pc = "call"
    /\ LET found == FindIn(_get_tempdir_proposals(ft_gettempdir, ft_environ, ft_cwd),
                           ft_dirs, ft_acceptable, ft_cwd)
       IN  /\ ft_result' = found.result
           /\ ft_raised' = found.raised
    /\ ft_pc' = "done"
    /\ UNCHANGED <<ft_gettempdir, ft_environ, ft_cwd, ft_dirs, ft_acceptable, dv_vars, td_vars,
                   io_vars,
                   cd_vars, ii_vars, ld_vars, cc_vars, copier_vars>>

NextTempdir == find_tempdir

SpecTempdir == InitTempdir /\ [][NextTempdir]_vars

-----------------------------------------------------------------------------
(* tempfile.TemporaryDirectoryHelper                                       *)

\* the names the with-block may create in the directory
HelperChildren == {"a", "b"}

\* a directory with the given entries
DirWith(children) == [kind |-> "dir", children |-> children]

\* a symbolic link to a directory elsewhere
LinkToDir == [kind |-> "link", children |-> {}]

\* what may be at the path
Trees == {Absent, LinkToDir} \cup {DirWith(c) : c \in SUBSET HelperChildren}

\* how shutil.rmtree goes: whether it meets an error, and what it leaves then
Faults == {[failed |-> f, left |-> l] : f \in BOOLEAN, l \in SUBSET HelperChildren}

\* the exceptions the with-block may raise
HelperBodyErrors == {"RuntimeError", "KeyboardInterrupt"}

\* Path.exists(): follows a symbolic link
exists(tree) == tree.kind # "absent"

\* shutil.rmtree(directory, ignore_errors): refuses a symbolic link, and may
\* meet an error of the filesystem; what remains, and what it raises
HelperRmtree(tree, ignore_errors, fault) ==
    IF tree.kind = "absent"
    THEN [tree |-> tree, failed |-> TRUE,
          raised |-> IF ignore_errors THEN "none" ELSE "FileNotFoundError"]
    ELSE IF tree.kind = "link"
    THEN [tree |-> tree, failed |-> TRUE, raised |-> IF ignore_errors THEN "none" ELSE "OSError"]
    ELSE IF fault.failed
    THEN [tree |-> DirWith(tree.children \cap fault.left), failed |-> TRUE,
          raised |-> IF ignore_errors THEN "none" ELSE "OSError"]
    ELSE [tree |-> Absent, failed |-> FALSE, raised |-> "none"]

\* cleanup without the test of line 121
CleanupUnguarded(tree, ignore_errors, fault) == HelperRmtree(tree, ignore_errors, fault)

\* TemporaryDirectoryHelper.cleanup
cleanup(tree, ignore_errors, fault) ==
    IF ~exists(tree)
    THEN [tree |-> tree, failed |-> FALSE, raised |-> "none"]
    ELSE HelperRmtree(tree, ignore_errors, fault)

InitHelper ==
    /\ InternalOff
    /\ LinkOff
    /\ CopierOff
    /\ CreateDirOff
    /\ DetectOff
    /\ TempdirOff
    /\ IoOff
    /\ td_directory \in {Abs(<<"b", "t">>), Rel(<<"t">>)}
    /\ td_delete \in BOOLEAN
    /\ td_ignore \in BOOLEAN
    /\ td_tree \in {Absent, DirWith({})}
    /\ td_pc = "init"
    /\ td_yield = "unset"
    /\ td_name = [at |-> "never", value |-> <<>>]
    /\ td_body_end = Absent
    /\ td_body_exc = "none"
    /\ td_exc = "none"
    /\ td_fault = FALSE

\* the property name
HelperName ==
    /\ td_pc \in {"init", "body", "exited"}
    /\ td_name' = [at |-> td_pc, value |-> td_directory]
    /\ UNCHANGED <<td_directory, td_delete, td_ignore, td_tree, td_pc, td_yield, td_body_end,
                   td_body_exc, td_exc, td_fault, dv_vars, ft_vars, io_vars, cd_vars, ii_vars, ld_vars,
                   cc_vars, copier_vars>>

\* __enter__
HelperEnter ==
    /\ td_pc = "init"
    /\ td_yield' = td_directory
    /\ td_pc' = "body"
    /\ UNCHANGED <<td_directory, td_delete, td_ignore, td_tree, td_name, td_body_end,
                   td_body_exc, td_exc, td_fault, dv_vars, ft_vars, io_vars, cd_vars, ii_vars, ld_vars,
                   cc_vars, copier_vars>>

\* the with-block changes what is at the path
HelperBodyChanges ==
    /\ td_pc = "body"
    /\ td_tree' \in Trees \ {td_tree}
    /\ UNCHANGED <<td_directory, td_delete, td_ignore, td_pc, td_yield, td_name, td_body_end,
                   td_body_exc, td_exc, td_fault, dv_vars, ft_vars, io_vars, cd_vars, ii_vars, ld_vars,
                   cc_vars, copier_vars>>

\* the with-block ends, normally or with an exception
HelperBodyEnds ==
    /\ td_pc = "body"
    /\ td_body_exc' \in {"none"} \cup HelperBodyErrors
    /\ td_body_end' = td_tree
    /\ td_pc' = "exiting"
    /\ UNCHANGED <<td_directory, td_delete, td_ignore, td_tree, td_yield, td_name, td_exc,
                   td_fault, dv_vars, ft_vars, io_vars, cd_vars, ii_vars, ld_vars, cc_vars,
                   copier_vars>>

\* __exit__: it returns False, so that an exception of the with-block goes
\* on; an exception of cleanup leaves __exit__ in its place
HelperExit ==
    /\ td_pc = "exiting"
    /\ \E fault \in Faults :
          LET done == IF td_delete
                      THEN cleanup(td_tree, td_ignore, fault)
                      ELSE [tree |-> td_tree, failed |-> FALSE, raised |-> "none"]
          IN  /\ td_tree' = done.tree
              /\ td_fault' = done.failed
              /\ td_exc' = IF done.raised # "none" THEN done.raised ELSE td_body_exc
    /\ td_pc' = "exited"
    /\ UNCHANGED <<td_directory, td_delete, td_ignore, td_yield, td_name, td_body_end,
                   td_body_exc, dv_vars, ft_vars, io_vars, cd_vars, ii_vars, ld_vars, cc_vars,
                   copier_vars>>

NextHelper ==
    \/ HelperName
    \/ HelperEnter
    \/ HelperBodyChanges
    \/ HelperBodyEnds
    \/ HelperExit

SpecHelper == InitHelper /\ [][NextHelper]_vars

-----------------------------------------------------------------------------
(* io.copy_file                                                            *)

\* longest file drawn
MaxContentLen == 2

\* largest file_check_content drawn
MaxCheckContent == 3

\* largest chunksize drawn
MaxChunkSize == 3

ByteValues == {"x", "y"}

Contents == UNION {[1..k -> ByteValues] : k \in 0..MaxContentLen}

\* a file with the given bytes
FileOf(bytes) == [exists |-> TRUE, bytes |-> bytes]

Files == {NoFile} \cup {FileOf(b) : b \in Contents}

\* f_in.read(chunksize) at a position: at most chunksize bytes, none at the end
ReadChunk(bytes, pos, chunksize) ==
    SubSeq(bytes, pos + 1, IF pos + chunksize < Len(bytes) THEN pos + chunksize ELSE Len(bytes))

\* the loop of lines 64-65: what it has written when read() returns no bytes
RECURSIVE CopyChunks(_, _, _, _)
CopyChunks(bytes, pos, chunksize, written) ==
    LET chunk == ReadChunk(bytes, pos, chunksize)
    IN  IF chunk = <<>> THEN written
        ELSE CopyChunks(bytes, pos + Len(chunk), chunksize, written \o chunk)

\* lines 62-66: the source is opened, then the destination is opened for
\* writing, which empties it (and with it the source, when both are one file)
CopyWhole(source, dest, same, chunksize) ==
    IF ~source.exists
    THEN [source |-> source, dest |-> dest, result |-> "unset", raised |-> "FileNotFoundError",
          wrote |-> FALSE]
    ELSE LET written == CopyChunks(IF same THEN <<>> ELSE source.bytes, 0, chunksize, <<>>)
         IN  [source |-> IF same THEN FileOf(written) ELSE source, dest |-> FileOf(written),
              result |-> TRUE, raised |-> "none", wrote |-> TRUE]

\* copy_file comparing only destinations smaller than file_check_content
CopyFileStrictLimit(source, dest, same, check_content, file_check_content, chunksize) ==
    IF /\ check_content
       /\ file_check_content > 0
       /\ dest.exists
       /\ Len(dest.bytes) < file_check_content
       /\ source.exists
       /\ Len(dest.bytes) = Len(source.bytes)
    THEN IF source.bytes = dest.bytes
         THEN [source |-> source, dest |-> dest, result |-> FALSE, raised |-> "none",
               wrote |-> FALSE]
         ELSE [source |-> source, dest |-> FileOf(source.bytes), result |-> TRUE,
               raised |-> "none", wrote |-> TRUE]
    ELSE CopyWhole(source, dest, same, chunksize)

\* io.copy_file: os.stat of a missing file raises FileNotFoundError, which
\* lines 58-60 catch, so that the whole copy of lines 62-66 follows
CopyFile(source, dest, same, check_content, file_check_content, chunksize) ==
    IF /\ check_content
       /\ file_check_content > 0
       /\ dest.exists
       /\ Len(dest.bytes) <= file_check_content
       /\ source.exists
       /\ Len(dest.bytes) = Len(source.bytes)
    THEN IF source.bytes = dest.bytes
         THEN [source |-> source, dest |-> dest, result |-> FALSE, raised |-> "none",
               wrote |-> FALSE]
         ELSE [source |-> source, dest |-> FileOf(source.bytes), result |-> TRUE,
               raised |-> "none", wrote |-> TRUE]
    ELSE CopyWhole(source, dest, same, chunksize)

InitIo ==
    /\ InternalOff
    /\ LinkOff
    /\ CopierOff
    /\ CreateDirOff
    /\ DetectOff
    /\ TempdirOff
    /\ HelperOff
    /\ io_source \in Files
    /\ io_dest \in Files
    /\ io_same \in BOOLEAN
    /\ io_same => io_dest = io_source
    /\ io_check \in BOOLEAN
    /\ io_limit \in 0..MaxCheckContent
    /\ io_chunksize \in 1..MaxChunkSize
    /\ io_after = NotCalled
    /\ io_pc = "call"

io_copy_file ==
    /\ io_pc = "call"
    /\ io_after' = CopyFile(io_source, io_dest, io_same, io_check, io_limit, io_chunksize)
    /\ io_pc' = "done"
    /\ UNCHANGED <<io_source, io_dest, io_same, io_check, io_limit, io_chunksize, dv_vars,
                   ft_vars, td_vars, cd_vars, ii_vars, ld_vars, cc_vars, copier_vars>>

NextIo == io_copy_file

SpecIo == InitIo /\ [][NextIo]_vars

-----------------------------------------------------------------------------
(* _TreeCopier._create_dir, called in any order                            *)

\* most calls of _create_dir followed
MaxCalls == 4

\* the arguments of _create_dir: the root in its two spellings, the
\* directories of the source tree
CreateDirArgs ==
    {<<>>, curdir, Rel(<<"d">>), Rel(<<"m">>), Rel(<<"m", "d">>)}

InitCreateDir ==
    /\ InternalOff
    /\ LinkOff
    /\ CollectionOff
    /\ DetectOff
    /\ TempdirOff
    /\ HelperOff
    /\ IoOff
    /\ cd_called = <<>>
    /\ fs = FsOf(BaseEntries)
    /\ normalize_links \in BOOLEAN
    /\ keep_inside_symlinks = TRUE
    /\ keep_outside_symlinks = FALSE
    /\ exclude_root = <<>>
    /\ to_path = DefaultDest
    /\ CopierIdle

\* _TreeCopier.__init__, as GitCopier.copy calls it
CreateDirConstruct ==
    /\ pc = "idle"
    /\ op = "none"
    /\ op' = "GitCopier"
    /\ LET r == TreeCopierInit(fs, Source, to_path["GitCopier"], keep_inside_symlinks,
                               keep_outside_symlinks, normalize_links)
       IN  /\ fs' = r.fs
           /\ tc' = r.tc
           /\ pc' = IF r.err = "none" THEN "create_dir" ELSE "raised"
    /\ UNCHANGED <<ii_vars, ld_vars, util_vars, cc_vars, policy_vars, outcome, walk_vars,
                   git_vars, relative_path>>

\* one call of _create_dir
CreateDirCall ==
    /\ pc = "create_dir"
    /\ Len(cd_called) < MaxCalls
    /\ \E d \in CreateDirArgs :
           LET r == _create_dir(fs, tc, d)
           IN  /\ fs' = r.fs
               /\ tc' = r.tc
               /\ relative_path' = d
               /\ pc' = IF r.err = "none" THEN "create_dir" ELSE "raised"
               /\ cd_called' = IF r.err = "none" THEN Append(cd_called, d) ELSE cd_called
    /\ UNCHANGED <<ii_vars, ld_vars, dv_vars, ft_vars, td_vars, io_vars, cc_vars, policy_vars,
                   op, outcome, walk_vars, git_vars>>

\* what the caller does between two calls: it writes a file into the
\* directory last created, which changes the directory's time stamp
CreateDirTouch ==
    /\ pc = "create_dir"
    /\ relative_path \notin {<<>>, curdir}
    /\ fs[join(tc.dest, relative_path)].meta # <<"t">>
    /\ fs' = [fs EXCEPT ![join(tc.dest, relative_path)].meta = <<"t">>]
    /\ UNCHANGED <<ii_vars, ld_vars, util_vars, cc_vars, policy_vars, pc, op, outcome, tc,
                   walk_vars, git_vars, relative_path>>

NextCreateDir ==
    \/ CreateDirConstruct
    \/ CreateDirCall
    \/ CreateDirTouch

SpecCreateDir == InitCreateDir /\ [][NextCreateDir]_vars

-----------------------------------------------------------------------------
(* Copier.copy and GitCopier.copy on one tree, the listing naming every    *)
(* entry of the tree that is no directory                                  *)

\* the base filesystem without the directories m and m/d, so that no
\* directory of the source tree is empty
FullEntries == BaseEntries \ {SrcDir(Abs(<<"s", "m">>)), SrcDir(Abs(<<"s", "m", "d">>))}

\* the relative paths of the entries of the source tree that are no
\* directories: regular files and symlinks
NonDirectories(f) ==
    {Drop(q, Len(Source) + 1) :
        q \in {q \in DOMAIN f : StartsWith(q, Source \o sep) /\ f[q].kind # "dir"}}

\* the listings that name each of the paths once, in any order
ListingsOf(paths) ==
    {l \in [1..Cardinality(paths) -> paths] : \A i, j \in 1..Len(l) : i # j => l[i] # l[j]}

InitFull ==
    /\ InternalOff
    /\ LinkOff
    /\ CollectionOff
    /\ UtilOff
    /\ \E link \in LinkChoices : fs = FsOf(FullEntries \cup link)
    /\ normalize_links \in BOOLEAN
    /\ keep_inside_symlinks \in BOOLEAN
    /\ keep_outside_symlinks \in BOOLEAN
    /\ exclude_root = <<>>
    /\ to_path = DefaultDest
    /\ CopierIdle

\* GitCopier.copy(Source, to_path) up to the loop, list_git_files having
\* returned every entry that is no directory
GitCopierCopyFull ==
    /\ pc = "idle"
    /\ outcome["Copier"] # "none"
    /\ outcome["GitCopier"] = "none"
    /\ op' = "GitCopier"
    /\ files' \in ListingsOf(NonDirectories(fs))
    /\ g_i' = 1
    /\ GitConstructed(TreeCopierInit(fs, Source, to_path["GitCopier"], keep_inside_symlinks,
                                     keep_outside_symlinks, normalize_links))
    /\ UNCHANGED <<ii_vars, ld_vars, util_vars, cc_vars, policy_vars, walk_vars, relative_path,
                   error_message>>

NextFull ==
    \/ CopierCopy
    \/ WalkSkip
    \/ WalkVisit
    \/ WalkFile
    \/ WalkDirs
    \/ WalkDone
    \/ GitCopierCopyFull
    \/ GitFile
    \/ GitDone

SpecFull == InitFull /\ [][NextFull]_vars

-----------------------------------------------------------------------------
(* Copier.copy and GitCopier.copy on a tree with a file three levels down, *)
(* the listing naming any of the files                                     *)

\* the base filesystem with the file m/d/g
DeepEntries == BaseEntries \cup {SrcFile(Abs(<<"s", "m", "d", "g">>))}

\* the listings that name some of the entries that are no directories, each
\* once, in any order
PartialListings(f) == UNION {ListingsOf(paths) : paths \in SUBSET NonDirectories(f)}

InitDeep ==
    /\ InternalOff
    /\ LinkOff
    /\ CollectionOff
    /\ UtilOff
    /\ fs = FsOf(DeepEntries)
    /\ normalize_links \in BOOLEAN
    /\ keep_inside_symlinks = TRUE
    /\ keep_outside_symlinks = FALSE
    /\ exclude_root \in {<<>>, <<Rel(<<"d">>)>>}
    /\ to_path = DefaultDest
    /\ CopierIdle

\* GitCopier.copy(Source, to_path, exclude_root=exclude_root) up to the loop,
\* list_git_files having returned some of the files
GitCopierCopySome ==
    /\ pc = "idle"
    /\ outcome["Copier"] # "none"
    /\ outcome["GitCopier"] = "none"
    /\ op' = "GitCopier"
    /\ files' \in PartialListings(fs)
    /\ g_i' = 1
    /\ GitConstructed(TreeCopierInit(fs, Source, to_path["GitCopier"], keep_inside_symlinks,
                                     keep_outside_symlinks, normalize_links))
    /\ UNCHANGED <<ii_vars, ld_vars, util_vars, cc_vars, policy_vars, walk_vars, relative_path,
                   error_message>>

\* the source tree of DeepEntries holds no symbolic link, so os.walk skips
\* nothing
NextDeep ==
    \/ CopierCopy
    \/ WalkVisit
    \/ WalkFile
    \/ WalkDirs
    \/ WalkDone
    \/ GitCopierCopySome
    \/ GitFile
    \/ GitDone

SpecDeep == InitDeep /\ [][NextDeep]_vars

-----------------------------------------------------------------------------
(* C1                                                                      *)

\* the number of leading '..' left over when the components of a relative
\* text are resolved one after the other: each name opens a level, each
\* '..' closes the last open level or, when none is open, escapes one level up
RECURSIVE Escaped(_, _, _)
Escaped(comps, depth, up) ==
    IF comps = <<>> THEN up
    ELSE LET c == Head(comps)
         IN  IF c = <<>> \/ c = curdir THEN Escaped(Tail(comps), depth, up)
             ELSE IF c = pardir
             THEN IF depth > 0 THEN Escaped(Tail(comps), depth - 1, up)
                  ELSE Escaped(Tail(comps), depth, up + 1)
             ELSE Escaped(Tail(comps), depth + 1, up)

\* C1: for every relative base directory B and link text T, _is_internal(B, T)
\* is false exactly when T is absolute, or join(B, T) carries a drive, or the
\* lexical normalization of join(B, T) is '..' or starts with '../' (that is,
\* resolving its components leaves at least one leading '..'); it is true in
\* every other case.
C1_IsInternalIff ==
    ii_pc = "done" =>
        LET dest == join(ii_directory, ii_link)
            np   == normpath(dest)
        IN  /\ (ii_result = FALSE) <=>
                   \/ isabs(ii_link)
                   \/ splitdrive0(dest) # <<>>
                   \/ np = pardir
                   \/ StartsWith(np, <<".", ".", "/">>)
            /\ ~isabs(ii_link) =>
                   ((ii_result = FALSE) <=> Escaped(StrSplit(dest), 0, 0) > 0)

\* C1 witness: the text 'a/../a' under the base '' dips into '..' and comes
\* back, and has been classified internal
C1_Witness ==
    /\ ii_pc = "done"
    /\ ii_directory = <<>>
    /\ ii_link = <<"a", "/", ".", ".", "/", "a">>
    /\ ii_result = TRUE

-----------------------------------------------------------------------------
(* C5, C6: the decision about one symlink                                  *)

\* the absolute text t names the root r or an entry below it, by its components
InsideRoot(t, r) ==
    LET tc_ == NonEmpty(StrSplit(normpath(t)))
        rc  == NonEmpty(StrSplit(r))
    IN  Len(tc_) >= Len(rc) /\ SubSeq(tc_, 1, Len(rc)) = rc

\* C5 as stated: every symlink whose literal target is absolute is classified
\* external and handled as keep_outside_symlinks says, for every value of
\* normalize_links.
C5_AbsoluteAlwaysExternal ==
    (ld_pc = "done" /\ isabs(ld_literal)) =>
        /\ ~ld_dec.internal
        /\ ld_dec.keep = ld_tc.keep_outside_symlinks

\* C5, amended: with normalize_links=false a symlink with an absolute literal
\* target keeps its text, is classified external and is handled as
\* keep_outside_symlinks says.  With normalize_links=true the text is first
\* rewritten relative to the link's directory and the rewritten text is
\* classified: it is internal exactly when the absolute target names the
\* source root or an entry below it (and some keep flag is set), and the
\* flag of its class decides.
C5_AbsoluteByRewrittenText ==
    (ld_pc = "done" /\ isabs(ld_literal)) =>
        IF ~ld_tc.normalize_links
        THEN /\ ld_dec.link = ld_literal
             /\ ~ld_dec.internal
             /\ ld_dec.keep = ld_tc.keep_outside_symlinks
        ELSE /\ ~isabs(ld_dec.link)
             /\ ld_dec.internal <=>
                    (~ld_tc.never_keep /\ InsideRoot(ld_literal, ld_tc.source))
             /\ ld_dec.keep = IF ld_dec.internal THEN ld_tc.keep_inside_symlinks
                              ELSE ld_tc.keep_outside_symlinks

\* C5 witness: the absolute text /a/a names an entry of the root /a; with
\* normalize_links=true and the default keep flags it was rewritten to a,
\* classified internal and kept
C5_Witness ==
    /\ ld_pc = "done"
    /\ ld_literal = <<"/", "a", "/", "a">>
    /\ ld_directory = <<>>
    /\ ld_tc.normalize_links
    /\ ld_tc.keep_inside_symlinks /\ ~ld_tc.keep_outside_symlinks
    /\ ld_dec = [link |-> <<"a">>, internal |-> TRUE, keep |-> TRUE]

\* C6 as stated: two copies with the same flags that meet a symlink with the
\* same literal target at the same relative path decide the same and store
\* the same text, whatever their source roots.
C6_SameDecisionAnyRoot ==
    ld_pc = "done" => ld_dec = ld_dec2

\* C6, amended: the two copies decide the same and store the same text when
\* normalize_links is false, and when the literal target is relative and
\* its resolution from the link's directory never leaves the root; with
\* normalize_links=true a target that is absolute or leaves the root is
\* rewritten against the absolute path of the source root, and the decision
\* depends on that path.
C6_SameDecisionUnlessRewritten ==
    (/\ ld_pc = "done"
     /\ \/ ~ld_tc.normalize_links
        \/ /\ ~isabs(ld_literal)
           /\ Escaped(StrSplit(join(ld_directory, ld_literal)), 0, 0) = 0)
    => ld_dec = ld_dec2

\* C6 witness: the literal ../a in the root directory, normalize_links=false:
\* both copies classify it external and leave the text alone
C6_Witness ==
    /\ ld_pc = "done"
    /\ ~ld_tc.normalize_links
    /\ ld_tc.keep_inside_symlinks /\ ~ld_tc.keep_outside_symlinks
    /\ ld_directory = <<>>
    /\ ld_literal = <<".", ".", "/", "a">>
    /\ ld_dec = [link |-> ld_literal, internal |-> FALSE, keep |-> FALSE]
    /\ ld_dec2 = ld_dec

-----------------------------------------------------------------------------
(* The destination trees of the two calls, and the symlink of the source.  *)

Calls == {"Copier", "GitCopier"}

DestOf(call) == IF call = "Copier" THEN DestWalk ELSE DestGit

\* the paths of the entries below the directory top, relative to top
Below(top) ==
    {Drop(k, Len(top) + 1) : k \in {k \in DOMAIN fs : StartsWith(k, top \o sep)}}

\* the call has a destination entry at the relative path p
InDest(call, p) == join(DestOf(call), p) \in DOMAIN fs

DestEntry(call, p) == fs[join(DestOf(call), p)]

\* the name of the root-level entry the relative path p lies at or below
FirstName(p) == StrSplit(p)[1]

ExcludedNames == {exclude_root[k] : k \in 1..Len(exclude_root)}

Listed == {files[k] : k \in 1..Len(files)}

\* the call comes to the source entry at the relative path p, if nothing
\* raises before: the walk unless p lies at or below an excluded root-level
\* name, the selective copy when p is listed and not filtered out
Reaches(call, p) ==
    IF call = "Copier"
    THEN FirstName(p) \notin ExcludedNames
    ELSE /\ p \in Listed
         /\ \A n \in ExcludedNames : p # n /\ ~StartsWith(p, n \o sep)

\* the relative paths of the symlinks of the source tree
SourceLinks == {p \in Below(Source) : fs[join(Source, p)].kind = "link"}

\* where the symlink at the relative path p leads
LinkTarget(p) == realpath(fs, join(Source, p))

LeadsOutside(p) ==
    LinkTarget(p) # Source /\ ~StartsWith(LinkTarget(p), Source \o sep)

\* the entries below the directory src have their content, links followed,
\* at the same relative paths below dst
FullCopy(src, dst) ==
    \A q \in Below(src) :
        LET from == realpath(fs, join(src, q))
            to   == join(dst, q)
        IN  /\ from \in DOMAIN fs
            /\ to \in DOMAIN fs
            /\ fs[to].kind = fs[from].kind
            /\ fs[to].data = fs[from].data

-----------------------------------------------------------------------------
(* C2                                                                      *)

\* C2: after a successful Copier.copy or GitCopier.copy (keep inside links,
\* materialize outside links, either normalize_links), every symlink in the
\* destination tree has a relative text, and the text joined to the link's
\* directory normalizes neither to '..' nor to a path starting with '../'.
C2_DestLinksStayInside ==
    \A call \in Calls :
        outcome[call] = "ok" =>
            \A p \in Below(DestOf(call)) :
                DestEntry(call, p).kind = "link" =>
                    LET text == DestEntry(call, p).data
                        np   == normpath(join(split(p)[1], text))
                    IN  /\ ~isabs(text)
                        /\ np # pardir
                        /\ ~StartsWith(np, pardir \o sep)
                        /\ Escaped(StrSplit(join(split(p)[1], text)), 0, 0) = 0

\* C2 witness: the selective copy returned, and left the link d/l with the
\* text ../e, which goes up and stays inside; the source link was written
\* through the root's name, as ../../s/e
C2_Witness ==
    /\ outcome["GitCopier"] = "ok"
    /\ InDest("GitCopier", Rel(<<"d", "l">>))
    /\ DestEntry("GitCopier", Rel(<<"d", "l">>)).kind = "link"
    /\ DestEntry("GitCopier", Rel(<<"d", "l">>)).data = Up \o Rel(<<"e">>)
    /\ fs[Abs(<<"s", "d", "l">>)].data = Up \o Up \o Rel(<<"s", "e">>)

-----------------------------------------------------------------------------
(* C3                                                                      *)

\* the call represents every symlink it reaches that leads to a directory
\* outside the source root by a directory with a full copy of the target
ExternalDirsCopied(call) ==
    outcome[call] = "ok" =>
        \A p \in SourceLinks :
            (/\ Reaches(call, p)
             /\ LeadsOutside(p)
             /\ LinkTarget(p) \in DOMAIN fs
             /\ fs[LinkTarget(p)].kind = "dir")
            => /\ InDest(call, p)
               /\ DestEntry(call, p).kind = "dir"
               /\ FullCopy(LinkTarget(p), join(DestOf(call), p))

\* C3: with keep_outside_symlinks=false, every source symlink that leads to
\* an existing directory outside the copy root is a real directory in the
\* destination, holding a full recursive copy of the target; for Copier.copy
\* and for GitCopier.copy.
C3_ExternalDirMaterialized ==
    ExternalDirsCopied("Copier") /\ ExternalDirsCopied("GitCopier")

-----------------------------------------------------------------------------
(* C4                                                                      *)

\* the symlinks below a directory of the source tree that lead to a
\* root-level entry of the tree
SiblingLinks ==
    {p \in SourceLinks :
        /\ split(p)[1] # <<>>
        /\ LinkTarget(p) \in DOMAIN fs
        /\ split(LinkTarget(p))[1] = Source}

\* the call copies every such symlink it reaches as the claim says
SiblingLinksKept(call) ==
    outcome[call] = "ok" =>
        \A p \in {p \in SiblingLinks : Reaches(call, p)} :
            LET literal == fs[join(Source, p)].data
                short   == Up \o split(LinkTarget(p))[2]
            IN  /\ InDest(call, p)
                /\ normalize_links =>
                       /\ DestEntry(call, p).kind = "link"
                       /\ DestEntry(call, p).data = short
                /\ (~normalize_links /\ literal = short) =>
                       DestEntry(call, p).kind = "link"
                /\ (~normalize_links /\ DestEntry(call, p).kind = "link") =>
                       DestEntry(call, p).data = literal

\* C4: with keep_inside_symlinks=true, a symlink at dir/link that leads to
\* the root-level entry sibling is copied as a symlink; with
\* normalize_links=true the stored text is ../sibling, also when the source
\* text is the longer form through the root's name, and with
\* normalize_links=false a kept link stores the source text unchanged.
C4_SiblingLinkKept ==
    SiblingLinksKept("Copier") /\ SiblingLinksKept("GitCopier")

-----------------------------------------------------------------------------
(* C7                                                                      *)

\* the listed paths the selective copy has to copy: they exist and are not
\* filtered out
GitCopied == {p \in Listed : lexists(fs, join(Source, p)) /\ Reaches("GitCopier", p)}

-----------------------------------------------------------------------------
(* C8                                                                      *)

\* C8: after Copier.copy with exclude_root returned, a source entry is
\* missing from the destination exactly when it is a root-level entry whose
\* name is in exclude_root or lies below such a root-level directory: the
\* same name deeper in the tree is copied, a name that matches nothing has
\* no effect, and the destination holds nothing else.
C8_RootExclusionOnly ==
    outcome["Copier"] = "ok" =>
        /\ \A p \in Below(Source) :
               ~InDest("Copier", p) <=> FirstName(p) \in ExcludedNames
        /\ \A q \in Below(DestWalk) : q \in Below(Source)

\* C8 witness: e was excluded; the copy returned without the root-level e
\* and with d/e
C8_Witness ==
    /\ outcome["Copier"] = "ok"
    /\ exclude_root = <<Rel(<<"e">>)>>
    /\ ~InDest("Copier", Rel(<<"e">>))
    /\ InDest("Copier", Rel(<<"d", "e">>))
    /\ DestEntry("Copier", Rel(<<"d", "e">>)).data = fs[Abs(<<"s", "d", "e">>)].data

-----------------------------------------------------------------------------
(* C9                                                                      *)

\* C9: GitCopier.copy skips a listed path exactly when it equals an excluded
\* name or starts with an excluded name and '/', and for every exclusion
\* list and every listed path it skips the path exactly when Copier.copy
\* with the same exclusion list does not copy that path.
C9_GitExclusionMirrorsWalk ==
    outcome["GitCopier"] = "ok" =>
        \A p \in {p \in Listed : lexists(fs, join(Source, p))} :
            /\ ~InDest("GitCopier", p) <=>
                   \E n \in ExcludedNames : p = n \/ StartsWith(p, n \o sep)
            /\ outcome["Copier"] = "ok" =>
                   (~InDest("GitCopier", p) <=> ~InDest("Copier", p))

-----------------------------------------------------------------------------
(* C10                                                                     *)

\* the symlinks of the source tree that the copy does not keep as links and
\* that lead to nothing
DanglingNotKept ==
    {p \in SourceLinks :
        /\ ~LinkKeep(tc, split(p)[1],
                     LinkText(tc, split(p)[1], fs[join(Source, p)].data))
        /\ LinkTarget(p) \notin DOMAIN fs}

\* the directories os.walk has not visited yet
Unvisited == UNION {frames[i] : i \in 1..Len(frames)}

\* C10: a call that reaches a symlink it does not keep and whose resolved
\* target does not exist ends with FileNotFoundError, and the copy stops at
\* that entry: the entry and the entries after it are not in the
\* destination, the entries copied before it still are (for Copier.copy,
\* looked at when the call has raised, while the locals of walk stand where
\* it stopped).
C10_DanglingLinkStopsCopy ==
    /\ \A call \in Calls :
           (/\ outcome[call] \notin {"none", "CopierError"}
            /\ \E p \in DanglingNotKept : Reaches(call, p))
           => outcome[call] = "FileNotFoundError"
    /\ outcome["GitCopier"] = "FileNotFoundError" =>
           /\ g_i \in 1..Len(files)
           /\ files[g_i] \in DanglingNotKept
           /\ \A j \in g_i..Len(files) : ~InDest("GitCopier", files[j])
           /\ \A j \in 1..(g_i - 1) :
                  files[j] \in GitCopied => InDest("GitCopier", files[j])
    /\ (outcome["Copier"] = "FileNotFoundError" /\ op = "Copier") =>
           /\ relative_path \in DanglingNotKept
           /\ ~InDest("Copier", relative_path)
           /\ \A n \in w_files \cup w_dirs : ~InDest("Copier", join(directory, n))
           /\ \A t \in Unvisited :
                  \A q \in Below(t) :
                      ~InDest("Copier", join(relpath(t, Source), q))
           /\ \A c \in Children(fs, root) :
                  (/\ ~isdir(fs, c)
                   /\ split(c)[2] \notin w_files
                   /\ join(directory, split(c)[2]) # relative_path
                   /\ Reaches("Copier", join(directory, split(c)[2])))
                  => InDest("Copier", join(directory, split(c)[2]))

\* C10 witness: Copier.copy raised FileNotFoundError at the root-level link
\* l, whose text ../x leads to nothing outside the root; the file e, copied
\* before, is in the destination, the directories d and m that came after
\* are not
C10_Witness ==
    /\ outcome["Copier"] = "FileNotFoundError"
    /\ op = "Copier"
    /\ relative_path = Rel(<<"l">>)
    /\ fs[Abs(<<"s", "l">>)].data = Up \o Rel(<<"x">>)
    /\ InDest("Copier", Rel(<<"e">>))
    /\ w_dirs = {Rel(<<"d">>), Rel(<<"m">>)}
    /\ ~InDest("Copier", Rel(<<"d">>))
    /\ ~InDest("Copier", Rel(<<"l">>))

-----------------------------------------------------------------------------
(* C11                                                                     *)

\* the symlinks of the source tree that lead to nothing and that the copy
\* keeps as links
DanglingKept ==
    {p \in SourceLinks :
        /\ LinkKeep(tc, split(p)[1],
                    LinkText(tc, split(p)[1], fs[join(Source, p)].data))
        /\ LinkTarget(p) \notin DOMAIN fs}

\* C11: a dangling symlink that is classified internal and kept as a link is
\* copied as a symlink, without error, by Copier.copy and by GitCopier.copy;
\* the selective copy does not take it for a vanished path, since the
\* existence test looks at the link and not at its target.
C11_DanglingInternalLinkCopied ==
    \A call \in Calls :
        (/\ outcome[call] \notin {"none", "CopierError"}
         /\ pc = "idle")
        => \A p \in {p \in DanglingKept : Reaches(call, p)} :
               /\ outcome[call] = "ok"
               /\ InDest(call, p)
               /\ DestEntry(call, p).kind = "link"
               /\ DestEntry(call, p).data =
                      LinkText(tc, split(p)[1], fs[join(Source, p)].data)
               /\ _is_internal(split(p)[1], DestEntry(call, p).data)

\* C11 witness: both calls returned; the root-level link l with the text x,
\* which names nothing inside the root, was listed, and is a link with the
\* text x in both destinations
C11_Witness ==
    /\ outcome = [c \in Calls |-> "ok"]
    /\ Rel(<<"l">>) \in Listed
    /\ Abs(<<"s", "l">>) \in DOMAIN fs
    /\ fs[Abs(<<"s", "l">>)] = Entry("link", Rel(<<"x">>), Abs(<<"s", "l">>))
    /\ ~lexists(fs, Abs(<<"s", "x">>))
    /\ \A c \in Calls :
           /\ InDest(c, Rel(<<"l">>))
           /\ DestEntry(c, Rel(<<"l">>)).kind = "link"
           /\ DestEntry(c, Rel(<<"l">>)).data = Rel(<<"x">>)

-----------------------------------------------------------------------------
(* C12                                                                     *)

\* C12: a full-tree copy without exclusions of a source tree that holds
\* only regular files and directories leaves a destination with the same
\* relative paths, the same kinds and the same file contents, empty
\* directories included, for every value of normalize_links,
\* keep_inside_symlinks and keep_outside_symlinks.
C12_PlainTreeRoundTrip ==
    (/\ outcome["Copier"] \notin {"none"}
     /\ pc = "idle"
     /\ SourceLinks = {})
    => /\ outcome["Copier"] = "ok"
       /\ exclude_root = <<>>
       /\ Below(DestWalk) = Below(Source)
       /\ \A p \in Below(Source) :
              /\ DestEntry("Copier", p).kind = fs[join(Source, p)].kind
              /\ DestEntry("Copier", p).data = fs[join(Source, p)].data

\* C12 witness: the walk returned with no flag at its default (links never
\* normalized, inside links not kept, outside links kept); the tree without
\* symlinks whose directory d is empty has its copy, with the empty
\* directories d and m/d and the content of e
C12_Witness ==
    /\ outcome["Copier"] = "ok"
    /\ ~normalize_links /\ ~keep_inside_symlinks /\ keep_outside_symlinks
    /\ SourceLinks = {}
    /\ Below(Source) = {Rel(<<"e">>), Rel(<<"d">>), Rel(<<"m">>), Rel(<<"m", "d">>)}
    /\ Below(DestWalk) = Below(Source)
    /\ DestEntry("Copier", Rel(<<"d">>)).kind = "dir"
    /\ DestEntry("Copier", Rel(<<"m", "d">>)).kind = "dir"
    /\ DestEntry("Copier", Rel(<<"e">>)) = fs[Abs(<<"s", "e">>)]

-----------------------------------------------------------------------------
(* C13                                                                     *)

\* the destination of the call exists, or its parent directory does not
BadDest(call) ==
    \/ lexists(fs, to_path[call])
    \/ ~isdir(fs, split(to_path[call])[1])

\* C13: a Copier.copy or GitCopier.copy whose to_path exists already, or
\* whose to_path has no parent directory, raises an error in the step that
\* starts it, before any entry is copied: nothing on the filesystem has
\* changed, the content of an existing to_path included.
C13_BadDestinationFails ==
    [][\A call \in Calls :
           (/\ pc = "idle"
            /\ outcome[call] = "none"
            /\ op' = call
            /\ BadDest(call))
           => /\ pc' = "idle"
              /\ outcome'[call] \in {"FileExistsError", "FileNotFoundError", "CopierError"}
              /\ fs' = fs]_vars

\* C13 witness: Copier.copy was given the free /t and returned; GitCopier.copy
\* was given the existing directory /p and raised FileExistsError; /p holds
\* what it held and nothing of the source
C13_Witness ==
    /\ to_path = [c \in Calls |-> IF c = "Copier" THEN DestWalk ELSE Abs(<<"p">>)]
    /\ outcome = [c \in Calls |-> IF c = "Copier" THEN "ok" ELSE "FileExistsError"]
    /\ Below(Abs(<<"p">>)) = {Rel(<<"f">>), Rel(<<"q">>), Rel(<<"q", "g">>), Rel(<<"k">>)}
    /\ fs[Abs(<<"p", "f">>)] = SrcFile(Abs(<<"p", "f">>))[2]

-----------------------------------------------------------------------------
(* C14                                                                     *)

\* C14: when the listing of the files fails with a ValueError,
\* GitCopier.copy raises CopierError with a message that names the source
\* directory and the cause, and has written nothing: its destination root
\* does not exist and nothing lies below it.
C14_ListFailureWritesNothing ==
    /\ outcome["GitCopier"] = "CopierError" =>
           /\ Len(error_message) = 4
           /\ error_message[2] = Source
           /\ error_message[4] \in ListErrors
           /\ ~lexists(fs, DestGit)
           /\ Below(DestGit) = {}
           /\ files = <<>>
    /\ outcome["GitCopier"] # "CopierError" => error_message = <<>>

\* C14 witness: git was not found; GitCopier.copy raised CopierError naming
\* /s and that cause, after Copier.copy had returned; no /u exists
C14_Witness ==
    /\ outcome = [c \in Calls |-> IF c = "Copier" THEN "ok" ELSE "CopierError"]
    /\ error_message = CopierErrorMessage(Abs(<<"s">>), "Cannot find git executable")
    /\ Abs(<<"u">>) \notin DOMAIN fs
    /\ lexists(fs, DestWalk)

-----------------------------------------------------------------------------
(* C15                                                                     *)

\* the scope of the with statement has ended, by a return or by an exception
ScopeEnded == cc_pc \in {"exited", "raised"}

\* C15: the temporary root of a CollectionCopier does not exist once the
\* scope has ended: after a normal end of the with-block, after an
\* exception raised in the with-block, and after any exception raised in
\* __enter__, whatever its kind (errors of the removal being ignored, the
\* states where the removal itself met an error are left aside).
C15_TempRootGoneAfterScope ==
    (ScopeEnded /\ ~cc_rm_failed) =>
        /\ ~lexists(fs, cc_dir)
        /\ Below(cc_dir) = {}

-----------------------------------------------------------------------------
(* C16                                                                     *)

\* C16 as stated: between the construction of the CollectionCopier and
\* __enter__ no temporary directory exists.
C16_NoTempRootBeforeEnter ==
    cc_pc = "constructed" => Below(TempDir) = {}

\* C16, amended: the temporary root is created by the construction of the
\* CollectionCopier: none exists before it, and from the construction to
\* __enter__ the root exists as an empty directory, so a coordinator that
\* is constructed and never entered leaves it on the filesystem.
C16_TempRootCreatedAtConstruction ==
    /\ cc_pc = "none" => Below(TempDir) = {}
    /\ cc_pc = "constructed" =>
           /\ cc_dir \in DOMAIN fs
           /\ fs[cc_dir].kind = "dir"
           /\ split(cc_dir)[1] = TempDir
           /\ Below(TempDir) = {split(cc_dir)[2]}

\* C16 witness: the coordinator is constructed and not entered, and its
\* empty root is in the temporary directory
C16_Witness ==
    /\ cc_pc = "constructed"
    /\ cc_calls = <<>>
    /\ cc_dir = TempDir \o sep \o <<TempName>>
    /\ isdir(fs, cc_dir)
    /\ Below(cc_dir) = {}

-----------------------------------------------------------------------------
(* C17                                                                     *)

\* <root>/collections/ansible_collections/<namespace>, written out
ContainerPath ==
    cc_dir \o <<"/", "collections", "/", "ansible_collections", "/", "foo">>

\* C17: __enter__ creates <root>/collections/ansible_collections/<namespace>
\* and not <namespace>/<name>, calls copier.copy once, with the source
\* directory and the <name> path, and returns the root and the <name> path.
C17_EnterBuildsContainerAndCopiesOnce ==
    /\ Len(cc_calls) <= 1
    /\ cc_pc \in {"none", "constructed"} => cc_calls = <<>>
    /\ (cc_pc = "copying" /\ pc = "idle" /\ outcome["Copier"] = "none") =>
           /\ isdir(fs, ContainerPath)
           /\ Below(cc_dir) = {<<"collections">>,
                               <<"collections", "/", "ansible_collections">>,
                               <<"collections", "/", "ansible_collections", "/", "foo">>}
           /\ ~lexists(fs, ContainerPath \o <<"/", "bar">>)
    /\ cc_pc \in {"copying", "entered", "exited"} =>
           /\ cc_calls = <<<<Source, ContainerPath \o <<"/", "bar">>>>>>
           /\ to_path["Copier"] = ContainerPath \o <<"/", "bar">>
    /\ cc_pc = "entered" =>
           /\ cc_yield = <<cc_dir, ContainerPath \o <<"/", "bar">>>>
           /\ tc.source = Source
           /\ tc.dest = ContainerPath \o <<"/", "bar">>
    /\ cc_pc # "entered" => (cc_yield = <<>> \/ cc_pc \in {"exited", "raised"})

\* C17 witness: the scope is entered; copier.copy was called once and has
\* put the file d/e of the source below <root>/collections/
\* ansible_collections/foo/bar, which __enter__ returned with the root
C17_Witness ==
    /\ cc_pc = "entered"
    /\ Len(cc_calls) = 1
    /\ cc_yield[1] = cc_dir
    /\ cc_yield[2] = ContainerPath \o <<"/", "bar">>
    /\ lexists(fs, cc_yield[2] \o Abs(<<"d", "e">>))
    /\ fs[cc_yield[2] \o Abs(<<"d", "e">>)].data = fs[Abs(<<"s", "d", "e">>)].data

-----------------------------------------------------------------------------
(* C18                                                                     *)

-----------------------------------------------------------------------------
(* C19                                                                     *)

\* the text is 'true' between blanks and line ends
TrimsToTrue(text) ==
    \E a, b \in 0..Len(text) :
        /\ Len(text) = a + 4 + b
        /\ \A i \in 1..a : text[i] \in Whitespace
        /\ SubSeq(text, a + 1, a + 4) = <<"t", "r", "u", "e">>
        /\ \A i \in (a + 5)..Len(text) : text[i] \in Whitespace

\* C19: detect_vcs returns 'git' exactly when the git command succeeds and
\* its trimmed output is 'true'; for every failure of the invocation
\* (binary missing, binary not executable or another error of the launch,
\* non-zero exit, unexpected output) it returns 'none', and it never raises.
C19_DetectNeverRaises ==
    dv_pc = "done" =>
        /\ dv_raised = "none"
        /\ dv_result \in {"git", "none"}
        /\ dv_result = "git" <=> (dv_run.kind = "output" /\ TrimsToTrue(dv_run.out))

-----------------------------------------------------------------------------
(* C20                                                                     *)

\* the candidates in the order of the claim, as the texts they are given by
Candidates ==
    <<ft_gettempdir>>
        \o (IF ft_environ.set /\ ft_environ.value # <<>> THEN <<ft_environ.value>> ELSE <<>>)
        \o <<Abs(<<"tmp">>), Abs(<<"var", "tmp">>), Abs(<<"usr", "tmp">>), ft_cwd>>

\* the absolute path of the i-th candidate
CandidateDir(i) == absolute(Path(Candidates[i]), ft_cwd)

\* the i-th candidate is a directory and is_acceptable accepts it
Qualifies(i) == CandidateDir(i) \in ft_dirs /\ CandidateDir(i) \in ft_acceptable

\* C20: find_tempdir returns the first candidate, in the order system
\* default, ANTSIBULL_FILEUTILS_TMPDIR when set and not empty, /tmp, /var/tmp,
\* /usr/tmp, current directory, that is a directory and whose absolute path
\* is_acceptable accepts; no earlier candidate qualifies; it raises
\* ValueError exactly when no candidate qualifies.
C20_FirstQualifyingCandidate ==
    ft_pc = "done" =>
        /\ ft_raised \in {"none", "ValueError"}
        /\ ft_raised = "ValueError" <=> ~\E i \in 1..Len(Candidates) : Qualifies(i)
        /\ ft_raised = "ValueError" => ft_result.kind = "unset"
        /\ ft_raised = "none" =>
              \E i \in 1..Len(Candidates) :
                  /\ Qualifies(i)
                  /\ \A j \in 1..(i - 1) : ~Qualifies(j)
                  /\ ft_result = [kind |-> "path", path |-> CandidateDir(i)]

\* the variable names a relative directory, which is returned below the
\* current directory although /tmp qualifies as well
C20_Witness ==
    /\ ft_pc = "done"
    /\ ft_environ = [set |-> TRUE, value |-> Rel(<<"r">>)]
    /\ ~Qualifies(1)
    /\ Qualifies(3)
    /\ ft_result = [kind |-> "path", path |-> Path(Abs(<<"w", "r">>))]

-----------------------------------------------------------------------------
(* C21                                                                     *)

\* the property name returned the configured path whenever it was read
NameIsDirectory == td_name.at # "never" => td_name.value = td_directory

\* C21: with delete=true the directory does not exist after the scope was
\* left, whether or not the with-block removed it already, and __exit__ does
\* not fail on a missing directory; with delete=false what is at the path
\* is what the with-block left; name returns the configured path; an
\* exception of the with-block is not suppressed.
C21_DirectoryGoneAfterScope ==
    /\ NameIsDirectory
    /\ td_pc = "exited" =>
          /\ td_delete => ~exists(td_tree)
          /\ td_delete /\ ~exists(td_body_end) => td_exc = td_body_exc
          /\ ~td_delete => td_tree = td_body_end /\ td_exc = td_body_exc
          /\ td_body_exc # "none" => td_exc # "none"

\* C21, with the errors of the removal: with delete=true the directory does
\* not exist after the scope was left unless shutil.rmtree met an error; such
\* an error leaves __exit__ as an exception unless ignore_cleanup_errors is
\* set, and then whatever was not removed stays. The rest is as claimed.
C21_DirectoryGoneUnlessRmtreeFails ==
    /\ NameIsDirectory
    /\ td_pc = "exited" =>
          /\ td_delete /\ ~td_fault => ~exists(td_tree) /\ td_exc = td_body_exc
          /\ td_delete /\ td_fault /\ ~td_ignore => td_exc = "OSError"
          /\ td_delete /\ td_fault /\ td_ignore => td_exc = td_body_exc
          /\ td_delete /\ ~exists(td_body_end) => ~td_fault
          /\ ~td_delete => td_tree = td_body_end /\ td_exc = td_body_exc
          /\ td_body_exc # "none" => td_exc # "none"

\* with delete=true the with-block removed the directory and raised; the
\* scope was left with that exception, the name was read afterwards
C21_Witness ==
    /\ td_pc = "exited"
    /\ td_delete
    /\ ~exists(td_body_end)
    /\ td_body_exc = "RuntimeError"
    /\ td_exc = "RuntimeError"
    /\ td_name = [at |-> "exited", value |-> td_directory]

-----------------------------------------------------------------------------
(* C22                                                                     *)

\* the case in which the claim has copy_file return False
Unchanged ==
    /\ io_check
    /\ io_limit > 0
    /\ io_dest.exists
    /\ Len(io_dest.bytes) <= io_limit
    /\ io_source.exists
    /\ io_dest.bytes = io_source.bytes

\* C22: io.copy_file returns False exactly when check_content is set,
\* file_check_content > 0, the destination exists with a size of at most
\* file_check_content and its bytes are those of the source, and then the
\* destination is not written; in every other call without error it returns
\* True; after every call without error the destination holds the bytes of
\* the source, for every chunksize >= 1.
C22_FalseIffSameContent ==
    io_pc = "done" /\ io_after.raised = "none" =>
        /\ io_after.result = FALSE <=> Unchanged
        /\ io_after.result = FALSE => ~io_after.wrote /\ io_after.dest = io_dest
        /\ io_after.result \in BOOLEAN
        /\ io_after.dest.exists
        /\ io_after.source.exists
        /\ io_after.dest.bytes = io_after.source.bytes
        /\ ~io_same => io_after.source = io_source

\* a destination of the size of the limit that holds the bytes of the source
\* is left alone, and one that holds other bytes of that size is rewritten
C22_Witness ==
    /\ io_pc = "done"
    /\ ~io_same
    /\ Len(io_source.bytes) = MaxContentLen
    /\ io_limit = MaxContentLen
    /\ io_check
    /\ io_dest = io_source
    /\ io_after.result = FALSE

-----------------------------------------------------------------------------
(* C23                                                                     *)

\* the paths whose entry the step writes
Written == {p \in DOMAIN fs' : p \notin DOMAIN fs \/ fs'[p] # fs[p]}

\* the directories the path p lies in, from the directory top downwards
Ancestors(p, top) ==
    {SubSeq(p, 1, k) : k \in {k \in Len(top)..(Len(p) - 1) : p[k + 1] = "/"}}

\* the step is one iteration of the loop of walk over files, or of the loop
\* of GitCopier.copy over the listing, that calls _copy_file for the
\* relative path rp
CopiesPath(rp) ==
    \/ /\ pc = "walk_files"
       /\ \E file \in w_files \ exclude_root_set :
              /\ w_files' = w_files \ {file}
              /\ rp = join(directory, file)
    \/ /\ pc = "git_files"
       /\ g_i <= Len(files)
       /\ g_i' # g_i \/ pc' # pc
       /\ ~GitExcluded(exclude_root, decode(files[g_i]))
       /\ lexists(fs, join(tc.source, decode(files[g_i])))
       /\ rp = decode(files[g_i])

\* the relative paths the two loops may come to
CopiedPaths == ListedPaths \cup Below(Source)

\* C23: in the full walk and in the selective copy, a file, a symlink or the
\* content a link is replaced by is written after the destination directory
\* that holds it was created: every entry a step writes below the
\* destination root has all its directories there, and once _copy_file was
\* called for a path, the destination directory of the path exists and a
\* regular file of the source has been written into it.
C23_DirectoryBeforeEntry ==
    [][/\ \A p \in Written :
              StartsWith(p, tc'.dest \o sep) =>
                  \A a \in Ancestors(p, tc'.dest) :
                      a \in DOMAIN fs' /\ fs'[a].kind = "dir"
       /\ \A rp \in CopiedPaths :
              CopiesPath(rp) =>
                  /\ isdir(fs', join(tc.dest, split(rp)[1]))
                  /\ fs[join(tc.source, rp)].kind = "file" =>
                         /\ join(tc.dest, rp) \in DOMAIN fs'
                         /\ fs'[join(tc.dest, rp)].kind = "file"
                         /\ pc' # "idle"]_vars

\* the selective copy has written d/e into a destination in which nothing
\* but _copy_file made the directory d
C23_Witness ==
    /\ op = "GitCopier"
    /\ pc = "git_files"
    /\ relative_path = Rel(<<"d", "e">>)
    /\ Rel(<<"d">>) \in tc.created_directories
    /\ join(DestGit, Rel(<<"d", "e">>)) \in DOMAIN fs
    /\ fs[join(DestGit, Rel(<<"d">>))].kind = "dir"

-----------------------------------------------------------------------------
(* C24                                                                     *)

\* the directories _create_dir was called for before the step
CalledBefore == {cd_called[k] : k \in 1..Len(cd_called)}

\* the step is a call of _create_dir for the directory d that returns
CreatesDir(d) == cd_called' = Append(cd_called, d)

\* C24: within one _TreeCopier the first call of _create_dir for a path
\* creates the destination directory, copies the stat data of the source
\* directory to it and records the path in created_directories; a later
\* call for the same path does nothing and does not raise;
\* created_directories only grows; the root, as '' and as '.', is recorded
\* from the construction on, is never created again and never receives the
\* stat data of the source root.
C24_CreateDirOnce ==
    [][/\ \A d \in CreateDirArgs :
              CreatesDir(d) =>
                  IF d \in CalledBefore \/ d \in {<<>>, curdir}
                  THEN fs' = fs /\ tc' = tc
                  ELSE /\ join(tc.dest, d) \in DOMAIN fs'
                       /\ fs'[join(tc.dest, d)].kind = "dir"
                       /\ fs'[join(tc.dest, d)].meta = fs[join(tc.source, d)].meta
                       /\ d \in tc'.created_directories
       /\ pc = "create_dir" =>
              /\ pc' = "create_dir"
              /\ tc.created_directories \subseteq tc'.created_directories
       /\ pc' = "create_dir" =>
              /\ {<<>>, curdir} \subseteq tc'.created_directories
              /\ fs'[tc'.dest] = Entry("dir", <<>>, FreshMeta)]_vars

\* m/d was created, written into, and _create_dir called for it again and
\* for the root: the directory keeps the time stamp of the write
C24_Witness ==
    /\ pc = "create_dir"
    /\ Len(cd_called) = MaxCalls
    /\ cd_called[1] = Rel(<<"m", "d">>)
    /\ cd_called[2] = Rel(<<"m", "d">>)
    /\ cd_called[3] = <<>>
    /\ cd_called[4] = curdir
    /\ fs[join(tc.dest, Rel(<<"m", "d">>))].meta = <<"t">>
    /\ tc.created_directories = {<<>>, curdir, Rel(<<"m", "d">>)}

-----------------------------------------------------------------------------
(* C25                                                                     *)

\* what the entry of a destination tree at the relative path p is: its
\* kind, and the bytes of a file or the target of a symlink
Shape(top, p) == <<fs[join(top, p)].kind, fs[join(top, p)].data>>

\* both copies returned
BothCopied == outcome["Copier"] = "ok" /\ outcome["GitCopier"] = "ok"

\* C25: for one source tree without empty directories and one policy,
\* without exclusions, the selective copy given every entry of the tree
\* that is no directory (regular files and symlinks, those to directories
\* included) leaves the destination tree the walk leaves: the same relative
\* paths, kinds, file contents and link targets.
C25_SelectiveEqualsWalk ==
    BothCopied =>
        /\ Below(DestGit) = Below(DestWalk)
        /\ \A p \in Below(DestWalk) : Shape(DestGit, p) = Shape(DestWalk, p)

-----------------------------------------------------------------------------
(* C26                                                                     *)

\* the relative paths of the directories of the destination of the copy
\* that ended last which are directories of the source as well
CopiedDirectories ==
    {p \in Below(tc.dest) :
        /\ fs[join(tc.dest, p)].kind = "dir"
        /\ join(tc.source, p) \in DOMAIN fs
        /\ fs[join(tc.source, p)].kind = "dir"}

\* the copy that ran last has returned, and its copier is still there
CopyReturned == pc = "idle" /\ op \in Calls /\ outcome[op] = "ok"

\* C26: when a copy, walk or selective, has returned, every directory of the
\* destination that is a directory of the source, the root aside, is in
\* created_directories and carries the stat data of the source directory;
\* so for a listed a/b/c both a and a/b.
C26_EveryDirectoryRecorded ==
    CopyReturned =>
        \A p \in CopiedDirectories :
            /\ p \in tc.created_directories
            /\ fs[join(tc.dest, p)].meta = fs[join(tc.source, p)].meta

-----------------------------------------------------------------------------
(* C27                                                                     *)

\* an __enter__ has returned and its __exit__ has not run
ScopeActive == cc_pc \in {"entered", "entered_twice"}

\* C27: while a scope of a CollectionCopier is active, the temporary root
\* and the directory that holds the collection directory exist, whatever
\* the sequence of __enter__ and __exit__ on the instance, a second
\* __enter__ before the first __exit__ included.
C27_RootLivesWhileActive ==
    ScopeActive =>
        /\ cc_yield[1] \in DOMAIN fs
        /\ split(cc_yield[2])[1] \in DOMAIN fs
        /\ fs[split(cc_yield[2])[1]].kind = "dir"

-----------------------------------------------------------------------------
(* C28                                                                     *)

\* the walk is at a directory it has listed
Visiting == op = "Copier" /\ pc = "walk_files"

\* the path lies below the destination root of the copier
MadeByCopy(path) == StartsWith(path, tc.dest \o sep)

\* C28: Copier.copy terminates for every finite source tree, also with
\* to_path inside from_path: the walk visits the directories of the source
\* tree it was given, each once, the new destination root being one of
\* them, and copies the entries of that tree, each once; so it never lists
\* a directory that the copy itself made below the destination root, and
\* never copies an entry that the copy itself put there.
C28_WalkStaysInSourceTree ==
    /\ Visiting => ~MadeByCopy(root)
    /\ op = "Copier" /\ relative_path # <<>> => ~MadeByCopy(join(tc.source, relative_path))

=============================================================================
